---- MODULE Spec2Model ----
(***************************************************************************)
(* Wallet challenge/response authentication of supra-multiwallet:          *)
(* src/lib/auth.ts (nonce codec, signature verifier, token issuer and      *)
(* verifier) and the route handlers under src/app/api/auth.                *)
(*                                                                         *)
(* A string is a sequence of elements.  An element is one character, or    *)
(* one compact JWS produced by jose (header.payload.mac in base64url,      *)
(* which never holds the character '|'), kept as a single element that     *)
(* carries the key it was MACed under, its one custom claim and its exp.   *)
(***************************************************************************)
EXTENDS Integers, Sequences, FiniteSets, TLC

VARIABLES
    clock,    \* the reading Date.now() gives at this moment (ms)
    issued,   \* the nonces handed out so far, each with the reading at issue
    minted,   \* the tokens createToken made so far, each with its address
    accepted, \* the first request /create-jwt accepted: its envelope, its nonce, when the
              \* nonce was issued, and how many requests with that nonce were accepted
    cookie,   \* the browser's authToken cookie (a JSON value, JUndef when unset)
    req,      \* the last request a route handler received
    resp,     \* the response it gave
    call,     \* the last direct call of a function of src/lib/auth.ts
    env,      \* process.env.NODE_ENV of the server
    client,   \* the flow of the wallet hook under way in the browser, and how far it is
    handler   \* the state of the ConnectWalletHandler component and its timers

vars == <<clock, issued, minted, accepted, cookie, req, resp, call, env, client, handler>>

----------------------------------------------------------------------------
(* Bounds of the model *)

\* the earliest clock reading of the model (ms)
Epoch == 1000
\* how many nonces direct calls of createNonce make at most
MaxCallNonces == 1
\* how many nonces GET /nonce hands out at most
MaxNonces == 2
\* how many tokens are minted at most
MaxTokens == 2
\* up to how many uses of one nonce are counted
MaxUses == 2
\* the connection attempts started from the wallet modal
MaxAttempts == 2

----------------------------------------------------------------------------
(* Program constants *)

NONCE_EXPIRY_MS == 5 * 60 * 1000
CLOCK_SKEW_MS == 60000
RANDOM_BYTES == 16
TOKEN_LIFETIME_S == 24 * 60 * 60
secret == "JWT_SECRET"
AUTH_MESSAGE == "Sign message to login to multiwallet"

\* a key that is not the server's
OtherKey == "attacker-key"
\* a JWS without an exp claim
NoExp == -1

----------------------------------------------------------------------------
(* Strings and JSON values *)

Ch(c) == [ch |-> c, jwt |-> <<>>]
Str(cs) == [i \in 1..Len(cs) |-> Ch(cs[i])]
Bar == Ch("|")

JStr(s) == [t |-> "str", s |-> s]
JNum == [t |-> "num", s |-> <<>>]
JUndef == [t |-> "undef", s |-> <<>>]

\* JavaScript truthiness of a request field: undefined and "" are falsy,
\* JNum stands for a non-zero number
Truthy(v) == \/ v.t = "num"
             \/ v.t = "str" /\ v.s # <<>>

Digits == <<"0", "1", "2", "3", "4", "5", "6", "7", "8", "9">>
HexDigits == Digits \o <<"a", "b", "c", "d", "e", "f">>

RECURSIVE NatToString(_)
NatToString(n) ==
    IF n < 10 THEN <<Ch(Digits[n + 1])>>
    ELSE NatToString(n \div 10) \o <<Ch(Digits[(n % 10) + 1])>>

\* Number.prototype.toString() of an integer
NumberToString(n) == IF n < 0 THEN <<Ch("-")>> \o NatToString(-n) ELSE NatToString(n)

IsDigit(e) == \E d \in 1..10 : e = Ch(Digits[d])
DigitVal(e) == (CHOOSE d \in 1..10 : e = Ch(Digits[d])) - 1

RECURSIVE DigitRun(_)
\* the longest prefix of s made of decimal digits
DigitRun(s) ==
    IF s = <<>> \/ ~IsDigit(Head(s)) THEN <<>>
    ELSE <<Head(s)>> \o DigitRun(Tail(s))

RECURSIVE DigitsValue(_)
DigitsValue(s) ==
    IF s = <<>> THEN 0
    ELSE DigitsValue(SubSeq(s, 1, Len(s) - 1)) * 10 + DigitVal(s[Len(s)])

RECURSIVE TrimLeft(_)
TrimLeft(s) == IF s # <<>> /\ Head(s) = Ch(" ") THEN TrimLeft(Tail(s)) ELSE s

NaN == [nan |-> TRUE, v |-> 0]
Num(n) == [nan |-> FALSE, v |-> n]

\* parseInt(s, 10): leading blanks, an optional sign, then the longest run
\* of digits; NaN when there is no digit
parseInt(s) ==
    LET t    == TrimLeft(s)
        neg  == t # <<>> /\ Head(t) = Ch("-")
        sign == t # <<>> /\ Head(t) \in {Ch("-"), Ch("+")}
        run  == DigitRun(IF sign THEN Tail(t) ELSE t)
    IN  IF run = <<>> THEN NaN
        ELSE Num(IF neg THEN -DigitsValue(run) ELSE DigitsValue(run))

\* String.prototype.split(sep) for a one-character separator: the pieces
\* between consecutive occurrences of sep
Split(s, sep) ==
    LET cuts   == {i \in 1..Len(s) : s[i] = sep}
        n      == Cardinality(cuts)
        cut(k) == IF k = 0 THEN 0
                  ELSE IF k = n + 1 THEN Len(s) + 1
                  ELSE CHOOSE i \in cuts : Cardinality({j \in cuts : j < i}) = k - 1
    IN  [k \in 1..(n + 1) |-> SubSeq(s, cut(k - 1) + 1, cut(k) - 1)]

\* b.toString(16).padStart(2, '0') of one byte
ByteHex(b) ==
    LET h == IF b < 16 THEN <<Ch(HexDigits[b + 1])>>
             ELSE <<Ch(HexDigits[(b \div 16) + 1]), Ch(HexDigits[(b % 16) + 1])>>
    IN  IF Len(h) < 2 THEN <<Ch("0")>> \o h ELSE h

RECURSIVE BytesHex(_)
\* Array.from(bytes).map(ByteHex).join('')
BytesHex(bytes) ==
    IF bytes = <<>> THEN <<>> ELSE ByteHex(Head(bytes)) \o BytesHex(Tail(bytes))

----------------------------------------------------------------------------
(* jose: HS256 compact JWS *)

\* new jose.SignJWT({claim: val}).setProtectedHeader({alg:'HS256'}).sign(key),
\* with exp set when the caller set an expiration time
SignJWT(claim, val, exp, key) == <<[ch |-> "", jwt |-> <<key, claim, val, exp>>]>>

IsJws(s) == Len(s) = 1 /\ s[1].jwt # <<>>

Thrown == [threw |-> TRUE, claim |-> "", val |-> JUndef]

\* a slip: a token is still good during the second after its exp
jwtVerify_ExpiresLate(token, key, now) ==
    IF token.t # "str" \/ ~IsJws(token.s) THEN Thrown
    ELSE LET j == token.s[1].jwt
         IN  IF j[1] # key THEN Thrown
             ELSE IF j[4] # NoExp /\ j[4] < now \div 1000 THEN Thrown
             ELSE [threw |-> FALSE, claim |-> j[2], val |-> j[3]]

\* jose.jwtVerify(token, key): the claims set, or an exception when token is
\* no compact JWS, its MAC is not one under key, or its exp is not after
\* the current second
jwtVerify(token, key, now) ==
    IF token.t # "str" \/ ~IsJws(token.s) THEN Thrown
    ELSE LET j == token.s[1].jwt
         IN  IF j[1] # key THEN Thrown
             ELSE IF j[4] # NoExp /\ j[4] <= now \div 1000 THEN Thrown
             ELSE [threw |-> FALSE, claim |-> j[2], val |-> j[3]]

\* payload.<name> of a verified claims set; undefined when there is no such claim
Claim(verified, name) == IF verified.claim = name THEN verified.val ELSE JUndef

----------------------------------------------------------------------------
(* src/lib/auth.ts: tokens *)

\* a slip: setExpirationTime is given the time of issue
createToken_NoLifetime(address, now) ==
    SignJWT("address", address, now \div 1000, secret)

\* jose sets exp to the current second plus the 24 hours
createToken(address, now) ==
    SignJWT("address", address, (now \div 1000) + TOKEN_LIFETIME_S, secret)

\* the exp claim of a token
TokenExp(token) == token[1].jwt[4]

NullPayload == [threw |-> FALSE, null |-> TRUE, claim |-> "", val |-> JUndef]

\* an exception that leaves verifyToken
TokenThrown == [threw |-> TRUE, null |-> TRUE, claim |-> "", val |-> JUndef]

\* a slip: no try/catch around jwtVerify
verifyToken_NoCatch(token, now) ==
    IF ~Truthy(token) THEN NullPayload
    ELSE LET v == jwtVerify(token, secret, now)
         IN  IF v.threw THEN TokenThrown
             ELSE [threw |-> FALSE, null |-> FALSE, claim |-> v.claim, val |-> v.val]

\* null for a falsy token and for every exception of jwtVerify
verifyToken(token, now) ==
    IF ~Truthy(token) THEN NullPayload
    ELSE LET v == jwtVerify(token, secret, now)
         IN  IF v.threw THEN NullPayload
             ELSE [threw |-> FALSE, null |-> FALSE, claim |-> v.claim, val |-> v.val]

----------------------------------------------------------------------------
(* src/lib/auth.ts: nonce codec *)

\* a slip: the signature covers the timestamp only
createNonce_SignsTimestampOnly(now, randomBytes) ==
    LET timestamp == NumberToString(now)
        randomHex == BytesHex(randomBytes)
        payload   == timestamp \o <<Bar>> \o randomHex
        signature == SignJWT("payload", JStr(timestamp), NoExp, secret)
    IN  payload \o <<Bar>> \o signature

createNonce(now, randomBytes) ==
    LET timestamp == NumberToString(now)
        randomHex == BytesHex(randomBytes)
        payload   == timestamp \o <<Bar>> \o randomHex
        signature == SignJWT("payload", JStr(payload), NoExp, secret)
    IN  payload \o <<Bar>> \o signature

\* a slip: parts.length < 3
NonceFormatBad_AtLeastThree(parts) == Len(parts) < 3

\* parts.length !== 3
NonceFormatBad(parts) == Len(parts) # 3

\* a slip: the MAC is verified but the payload is not compared
NonceSignatureOk_NoPayloadCheck(timestamp, random, signature, now) ==
    ~jwtVerify(JStr(signature), secret, now).threw

\* jwtVerify(signature, secret) succeeds and verified.payload === payload
NonceSignatureOk(timestamp, random, signature, now) ==
    LET payload  == timestamp \o <<Bar>> \o random
        verified == jwtVerify(JStr(signature), secret, now)
    IN  /\ ~verified.threw
        /\ Claim(verified, "payload") = JStr(payload)

\* age = now - nonceTimestamp; a comparison with NaN is false
NonceAge(timestamp, now) ==
    LET nonceTimestamp == parseInt(timestamp)
    IN  IF nonceTimestamp.nan THEN NaN ELSE Num(now - nonceTimestamp.v)

\* a slip: the age is taken in seconds, the limit in milliseconds
NonceExpired_InSeconds(age) == ~age.nan /\ age.v \div 1000 > NONCE_EXPIRY_MS

NonceExpired(age) == ~age.nan /\ age.v > NONCE_EXPIRY_MS

\* a slip: no clock-skew allowance
NonceFromFuture_NoTolerance(age) == ~age.nan /\ age.v < 0

NonceFromFuture(age) == ~age.nan /\ age.v < -CLOCK_SKEW_MS

\* the body of validateNonce's outer try block: "true", "false" or "throw"
validateNonceTry(nonce, now) ==
    IF nonce.t # "str" THEN "throw"
    ELSE LET parts == Split(nonce.s, Bar)
         IN  IF NonceFormatBad(parts) THEN "false"
             ELSE IF ~NonceSignatureOk(parts[1], parts[2], parts[3], now) THEN "false"
             ELSE IF NonceExpired(NonceAge(parts[1], now)) THEN "false"
             ELSE IF NonceFromFuture(NonceAge(parts[1], now)) THEN "false"
             ELSE "true"

\* validateNonce: the outer catch turns every exception into false
validateNonce(nonce, now) ==
    LET r == validateNonceTry(nonce, now)
    IN  [threw |-> FALSE, value |-> (r = "true")]

----------------------------------------------------------------------------
(* src/lib/auth.ts: wallet signature verifier (tweetnacl, Buffer) *)

\* byte strings: an Ed25519 signature over msg by the private key of `by`,
\* the public key of `by`, or bytes that are neither
SigBytes(msg, by) == [kind |-> "sig", msg |-> msg, by |-> by, len |-> 64]
PubBytes(by) == [kind |-> "pub", msg |-> "", by |-> by, len |-> 32]
Junk(len) == [kind |-> "junk", msg |-> "", by |-> "", len |-> len]

\* a field of the signature envelope: the string pre + hex(bytes) + tail,
\* or a value that is no string
Hex(pre, bytes, tail) == [t |-> "str", pre |-> pre, bytes |-> bytes, tail |-> tail]
HUndef == [t |-> "undef", pre |-> "", bytes |-> Junk(0), tail |-> ""]
HNum == [t |-> "num", pre |-> "", bytes |-> Junk(0), tail |-> ""]
HTruthy(h) == h.t = "num" \/ (h.t = "str" /\ (h.pre # "" \/ h.bytes.len > 0 \/ h.tail # ""))

\* the body's signature field: an object with the two fields, or no object
Envelope(sig, pub) == [t |-> "obj", signature |-> sig, publicKey |-> pub]
NoEnvelope == [t |-> "undef", signature |-> HUndef, publicKey |-> HUndef]

\* Buffer.from(h.slice(2), 'hex'): slice drops the first two characters
\* whatever they are, and decoding stops at the first character pair that
\* is not hexadecimal ("zz"); "ab" is one more byte
HexSliceDecode(h) ==
    LET sliced == IF h.pre # "" THEN h.bytes
                  ELSE IF h.bytes.len > 0 THEN Junk(h.bytes.len - 1)
                  ELSE Junk(0)
    IN  IF h.tail = "ab" THEN Junk(sliced.len + 1) ELSE sliced

AddrA == Str(<<"0", "x", "a", "1">>)
AddrB == Str(<<"0", "x", "b", "2">>)

\* the private key of the account behind an address (the chain's address
\* derivation, which the server does not implement)
OwnerKey(address) ==
    IF address = JStr(AddrA) THEN "K1"
    ELSE IF address = JStr(AddrB) THEN "K2"
    ELSE "nobody"

OTHER_MESSAGE == "Sign message to revalidate login to multiwallet"

\* nacl.sign.detached.verify(msg, sig, publicKey): "throw" on a wrong size
naclVerify(msg, sig, pub) ==
    IF sig.len # 64 \/ pub.len # 32 THEN "throw"
    ELSE IF /\ sig.kind = "sig"
            /\ pub.kind = "pub"
            /\ sig.msg = msg
            /\ sig.by = pub.by THEN "true"
    ELSE "false"

\* the change the TODO asks for: the public key must derive to the address
verifyWalletSignatureTry_DerivesAddress(message, signature, address) ==
    IF signature.signature.t # "str" \/ signature.publicKey.t # "str" THEN "throw"
    ELSE LET verified == naclVerify(message,
                                    HexSliceDecode(signature.signature),
                                    HexSliceDecode(signature.publicKey))
         IN  IF verified # "true" THEN verified
             ELSE IF HexSliceDecode(signature.publicKey).by # OwnerKey(address) THEN "false"
             ELSE "true"

\* the body of verifyWalletSignature's try block; the address is not read
verifyWalletSignatureTry(message, signature, address) ==
    IF signature.signature.t # "str" \/ signature.publicKey.t # "str" THEN "throw"
    ELSE naclVerify(message,
                    HexSliceDecode(signature.signature),
                    HexSliceDecode(signature.publicKey))

\* a slip: the verdict of nacl is not tested
verifyWalletSignature_VerdictIgnored(message, signature, address) ==
    LET r == verifyWalletSignatureTry(message, signature, address)
    IN  [threw |-> FALSE, value |-> (r # "throw")]

\* true when nacl's verdict is true; false when it is false and for every
\* exception
verifyWalletSignature(message, signature, address) ==
    LET r == verifyWalletSignatureTry(message, signature, address)
    IN  [threw |-> FALSE, value |-> (r = "true")]

----------------------------------------------------------------------------
(* The environment: clock readings, random draws *)

\* the readings the clock takes: around the skew allowance and the expiry
\* window of a nonce issued at Epoch
Instants ==
    { Epoch,
      Epoch + CLOCK_SKEW_MS,
      Epoch + CLOCK_SKEW_MS + 1,
      Epoch + NONCE_EXPIRY_MS - 1000,
      Epoch + NONCE_EXPIRY_MS,
      Epoch + NONCE_EXPIRY_MS + 1,
      Epoch + NONCE_EXPIRY_MS + CLOCK_SKEW_MS + 1 }

\* what crypto.getRandomValues may put into the 16 bytes
RandomDraws ==
    { [i \in 1..RANDOM_BYTES |-> 0],
      [i \in 1..RANDOM_BYTES |-> (i * 17 + 249) % 256] }

\* the random bytes of the nonces handed out where the bytes do not matter:
\* one draw per reading of the clock
ProtocolDraws == {[i \in 1..RANDOM_BYTES |-> (i * 17 + 249) % 256]}

\* no call: arg is the argument of a nonce or token function; message,
\* signature and address are the arguments of verifyWalletSignature
NoCall == [fn |-> "none", arg |-> JUndef, now |-> 0,
           message |-> "", signature |-> NoEnvelope, address |-> JUndef,
           threw |-> FALSE, ok |-> FALSE, out |-> JUndef]

\* no request; body tells what request.json() gives: an object or null
NoReq == [ep |-> "none", body |-> "object", address |-> JUndef,
          signature |-> NoEnvelope, nonce |-> JUndef, token |-> JUndef,
          cookie |-> JUndef, path |-> <<>>]

\* no Set-Cookie header
NoSetCookie == [set |-> FALSE, value |-> JUndef, maxAge |-> 0, httpOnly |-> FALSE,
                sameSite |-> "", path |-> "", secure |-> FALSE]

\* response.cookies.set({name: 'authToken', value, httpOnly: true, secure:
\* NODE_ENV === 'production', sameSite: 'lax', maxAge, path: '/'})
AuthCookie(value, maxAge) ==
    [set |-> TRUE, value |-> value, maxAge |-> maxAge, httpOnly |-> TRUE,
     sameSite |-> "lax", path |-> "/", secure |-> (env = "production")]

\* no response; checks counts the calls of validateNonce and
\* verifyWalletSignature the handler made
NoResp == [ep |-> "none", status |-> 0, at |-> 0, error |-> "",
           token |-> JUndef, address |-> JUndef, body |-> JUndef,
           authenticated |-> FALSE, setCookie |-> NoSetCookie, checks |-> 0]

NoAccepted == [any |-> FALSE, signature |-> NoEnvelope, nonce |-> JUndef,
               issuedAt |-> 0, uses |-> 0]

IssuedStrs == {i.nonce : i \in issued}

\* the reading of the clock changes between two calls or requests;
\* Date.now() is wall-clock time and is not monotonic
Tick(t) ==
    /\ t # clock
    /\ call = NoCall
    /\ resp = NoResp
    /\ clock' = t
    /\ UNCHANGED <<handler, env, client, issued, minted, accepted, cookie, req, resp, call>>

----------------------------------------------------------------------------
(* Direct calls of the nonce codec *)

\* the part of a nonce before its signature segment: timestamp|random
PayloadOf(n) == SubSeq(n, 1, Len(n) - 2)

TamperChars == {"0", "7", "a", "x", "|"}

\* n with one character before the signature segment replaced
Tampered(n) ==
    { [n EXCEPT ![k] = Ch(c)] : k \in 1..(Len(n) - 2), c \in TamperChars } \ {n}

\* strings built from an issued nonce that are not nonces of the server
Malformed(n) ==
    { PayloadOf(n),
      n \o <<Bar, Ch("0")>>,
      PayloadOf(n) \o <<Bar, Ch("e"), Ch("y"), Ch("J")>>,
      PayloadOf(n) \o <<Bar>> \o SignJWT("payload", JStr(PayloadOf(n)), NoExp, OtherKey),
      PayloadOf(n) \o <<Bar>> \o createToken(JStr(PayloadOf(n)), Epoch),
      PayloadOf(n) \o <<Bar>> \o SignJWT("payload", JStr(<<Ch("7")>> \o PayloadOf(n)), NoExp, secret) }

\* what a caller that does not know the secret can pass to validateNonce
NonceInputs(n) ==
    {JUndef, JNum, JStr(<<>>), JStr(Str(<<"7", "|", "0", "0", "|", "x">>)), JStr(n)}
    \cup {JStr(m) : m \in Tampered(n)}
    \cup {JStr(m) : m \in Malformed(n)}
    \cup {JStr(PayloadOf(n) \o SubSeq(b, Len(b) - 1, Len(b))) : b \in IssuedStrs}

CallCreateNonce(r) ==
    /\ call = NoCall
    /\ Cardinality(issued) < MaxCallNonces
    /\ LET n == createNonce(clock, r)
       IN  /\ issued' = issued \cup {[nonce |-> n, at |-> clock]}
           /\ call' = [NoCall EXCEPT !.fn = "createNonce", !.now = clock,
                                      !.ok = TRUE, !.out = JStr(n)]
    /\ UNCHANGED <<handler, env, client, clock, minted, accepted, cookie, req, resp>>

CallValidateNonce(n) ==
    /\ LET r == validateNonce(n, clock)
       IN  call' = [NoCall EXCEPT !.fn = "validateNonce", !.arg = n, !.now = clock,
                                  !.threw = r.threw, !.ok = r.value]
    /\ UNCHANGED <<handler, env, client, clock, issued, minted, accepted, cookie, req, resp>>

\* the caller takes the result
Return ==
    /\ call # NoCall
    /\ call' = NoCall
    /\ UNCHANGED <<handler, env, client, clock, issued, minted, accepted, cookie, req, resp>>

\* no flow of the hook is under way. flow and wallet name the flow and the
\* wallet type, pc the await the flow stands at; nonce, signature and token
\* are its local constants and message what it gave signMessage. What
\* outlives a flow: signing is localStorage's isSigningWallet,
\* justRequestedRelative and selectedWallet the hook's
\* state of those names, other whether a signMessage call of another hook
\* instance has a request outstanding. signer is the selectedWallet of the
\* render the flow was called from, which its signMessage reads.
\* The rest is history of the flow: localStorage is what it wrote to the
\* authToken item, session is the cookie the browser held
\* when it began, got the body of the GET /nonce response it received,
\* status and login the statuses /create-jwt and /wallet-login answered it,
\* documentCookie the value it assigned to document.cookie, trace the
\* awaits it completed and the events it dispatched, in order, and result
\* what it returned
NoClient == [flow |-> "none", wallet |-> "none", pc |-> "idle", nonce |-> JUndef,
             signature |-> NoEnvelope, token |-> JUndef, message |-> "",
             signing |-> FALSE, justRequestedRelative |-> FALSE,
             localStorage |-> JUndef, documentCookie |-> JUndef,
             selectedWallet |-> "starkey", signer |-> "none", other |-> "idle",
             session |-> JUndef, got |-> JUndef, status |-> 0, login |-> 0,
             trace |-> <<>>, result |-> "none"]

\* ConnectWalletHandler as mounted: connectionStage, selectedWallet, loading
\* and showWalletModal are its state of those names and timers the
\* setTimeout calls not yet run. History: attempt counts the connection
\* attempts started, calling tells that the hook's connectWallet is awaited,
\* seen how many entries of the flow's trace the listeners have handled
NoHandler == [connectionStage |-> "idle", selectedWallet |-> "none", loading |-> FALSE,
              showWalletModal |-> FALSE, timers |-> {}, attempt |-> 0,
              calling |-> FALSE, seen |-> 0]

\* nothing issued, nothing minted, no cookie, no request under way
InitIn(readings, envs) ==
    /\ clock \in readings
    /\ env \in envs
    /\ issued = {}
    /\ minted = {}
    /\ accepted = NoAccepted
    /\ cookie = JUndef
    /\ req = NoReq
    /\ resp = NoResp
    /\ call = NoCall
    /\ client = NoClient
    /\ handler = NoHandler

\* the same, on a production server
InitAt(readings) == InitIn(readings, {"production"})

InitCodec == InitAt(Instants)

NextCodec ==
    \/ \E t \in Instants : Tick(t)
    \/ \E r \in RandomDraws : CallCreateNonce(r)
    \/ /\ call = NoCall
       /\ \E i \in issued : \E n \in NonceInputs(i.nonce) : CallValidateNonce(n)
    \/ Return

SpecCodec == InitCodec /\ [][NextCodec]_vars

----------------------------------------------------------------------------
(* Direct calls of the token issuer and verifier *)

\* the readings of the clock around the lifetime of a token minted at Epoch
TokenInstants ==
    { Epoch,
      Epoch + 500,
      Epoch + TOKEN_LIFETIME_S * 1000 - 1,
      Epoch + TOKEN_LIFETIME_S * 1000 + 1,
      Epoch + 500 + TOKEN_LIFETIME_S * 1000 + 1 }

\* the addresses createToken is called with; the type admits every string
TokenAddresses == {JStr(AddrA), JStr(<<>>)}

\* the signature segment of a nonce: its last element, a JWS
SignatureSegment(n) == SubSeq(n, Len(n), Len(n))

\* what a caller that does not know the secret can pass as a token
TokenInputs ==
    { JUndef, JNum, JStr(<<>>), JStr(Str(<<"e", "y", "J">>)),
      JStr(SignJWT("address", JStr(AddrA), (Epoch \div 1000) + TOKEN_LIFETIME_S, OtherKey)) }
    \cup {JStr(m.token) : m \in minted}
    \cup {JStr(SignatureSegment(n)) : n \in IssuedStrs}
    \cup {JStr(n) : n \in IssuedStrs}

\* payload.address of verifyToken's result
PayloadAddress(payload) ==
    IF ~payload.null /\ payload.claim = "address" THEN payload.val ELSE JUndef

CallCreateToken(a) ==
    /\ Cardinality(minted) < MaxTokens
    /\ LET t == createToken(a, clock)
       IN  /\ minted' = minted \cup {[token |-> t, address |-> a, at |-> clock]}
           /\ call' = [NoCall EXCEPT !.fn = "createToken", !.arg = a, !.now = clock,
                                      !.ok = TRUE, !.out = JStr(t)]
    /\ UNCHANGED <<handler, env, client, clock, issued, accepted, cookie, req, resp>>

CallVerifyToken(t) ==
    /\ LET payload == verifyToken(t, clock)
       IN  call' = [NoCall EXCEPT !.fn = "verifyToken", !.arg = t, !.now = clock,
                                  !.threw = payload.threw, !.ok = ~payload.null,
                                  !.out = PayloadAddress(payload)]
    /\ UNCHANGED <<handler, env, client, clock, issued, minted, accepted, cookie, req, resp>>

NextToken ==
    \/ \E t \in TokenInstants : Tick(t)
    \/ \E r \in ProtocolDraws : CallCreateNonce(r)
    \/ /\ call = NoCall
       /\ \E a \in TokenAddresses : CallCreateToken(a)
    \/ /\ call = NoCall
       /\ \E t \in TokenInputs : CallVerifyToken(t)
    \/ Return

InitToken == InitAt(TokenInstants)

SpecToken == InitToken /\ [][NextToken]_vars

----------------------------------------------------------------------------
(* Direct calls of the wallet signature verifier *)

Keys == {"K1", "K2"}
Messages == {AUTH_MESSAGE, OTHER_MESSAGE}

\* the envelope a wallet holding key k returns for message msg
Signed(msg, k) == Envelope(Hex("0x", SigBytes(msg, k), ""), Hex("0x", PubBytes(k), ""))

\* the ways a client may write the bytes of one field: with the 0x prefix,
\* with another two characters in its place, with no prefix, followed by
\* two characters that are no hex digits, followed by one more byte
Encodings(bytes) ==
    { Hex("0x", bytes, ""), Hex("zz", bytes, ""), Hex("", bytes, ""),
      Hex("0x", bytes, "zz"), Hex("0x", bytes, "ab") }

\* the signature arguments of the direct calls: every pairing of a signature
\* with a public key, every encoding of a good pair, bytes that are no
\* signature or of a wrong length, and values that are no strings
VerifierEnvelopes ==
    { Envelope(Hex("0x", SigBytes(m, k), ""), Hex("0x", PubBytes(p), "")) :
          m \in Messages, k \in Keys, p \in Keys }
    \cup { Envelope(sig, pub) : sig \in Encodings(SigBytes(AUTH_MESSAGE, "K1")),
                                pub \in Encodings(PubBytes("K1")) }
    \cup { Envelope(Hex("0x", Junk(64), ""), Hex("0x", PubBytes("K1"), "")),
           Envelope(Hex("0x", Junk(3), ""), Hex("0x", PubBytes("K1"), "")),
           Envelope(Hex("0x", SigBytes(AUTH_MESSAGE, "K1"), ""), Hex("0x", Junk(32), "")),
           Envelope(Hex("", Junk(0), ""), Hex("", Junk(0), "")),
           Envelope(HNum, Hex("0x", PubBytes("K1"), "")),
           Envelope(Hex("0x", SigBytes(AUTH_MESSAGE, "K1"), ""), HUndef),
           NoEnvelope }

VerifierAddresses == {JStr(AddrA), JStr(AddrB), JStr(<<>>)}

CallVerifyWalletSignature(message, signature, address) ==
    /\ LET r == verifyWalletSignature(message, signature, address)
       IN  call' = [NoCall EXCEPT !.fn = "verifyWalletSignature", !.now = clock,
                                  !.message = message, !.signature = signature,
                                  !.address = address,
                                  !.threw = r.threw, !.ok = r.value]
    /\ UNCHANGED <<handler, env, client, clock, issued, minted, accepted, cookie, req, resp>>

InitVerifier == InitAt({Epoch})

NextVerifier ==
    \/ /\ call = NoCall
       /\ \E m \in Messages, e \in VerifierEnvelopes, a \in VerifierAddresses :
              CallVerifyWalletSignature(m, e, a)
    \/ Return

SpecVerifier == InitVerifier /\ [][NextVerifier]_vars

----------------------------------------------------------------------------
(* The route handlers under src/app/api/auth and the browser *)

\* the address fields a client sends: none, a number, an account's address
AddressInputs == {JUndef, JNum, JStr(AddrA)}

EnvelopeInputs ==
    { NoEnvelope,
      Signed(AUTH_MESSAGE, "K1"),
      Signed(AUTH_MESSAGE, "K2"),
      Signed(OTHER_MESSAGE, "K2"),
      Envelope(Hex("0x", SigBytes(AUTH_MESSAGE, "K1"), ""), Hex("0x", PubBytes("K2"), "")),
      Envelope(Hex("", SigBytes(AUTH_MESSAGE, "K2"), ""), Hex("0x", PubBytes("K2"), "")),
      Envelope(Hex("zz", SigBytes(AUTH_MESSAGE, "K2"), ""), Hex("0x", PubBytes("K2"), "")),
      Envelope(HUndef, Hex("0x", PubBytes("K2"), "")),
      Envelope(HNum, Hex("0x", PubBytes("K2"), "")) }

\* the nonce fields a client sends: none, a number, a string it made up or
\* a nonce it was given
RequestNonces ==
    {JUndef, JNum, JStr(Str(<<"x">>)), JStr(Str(<<"7", "|", "0", "0", "|", "x">>))}
    \cup {JStr(n) : n \in IssuedStrs}

ProtocolInstants == {Epoch, Epoch + NONCE_EXPIRY_MS + 1}

Response(ep, status, error) ==
    [NoResp EXCEPT !.ep = ep, !.status = status, !.at = clock, !.error = error]

\* GET /api/auth/nonce
NonceGET(r) ==
    /\ Cardinality(issued) < MaxNonces
    /\ LET nonce == createNonce(clock, r)
       IN  /\ issued' = issued \cup {[nonce |-> nonce, at |-> clock]}
           /\ resp' = [Response("nonce", 200, "") EXCEPT !.body = JStr(nonce)]
    /\ req' = [NoReq EXCEPT !.ep = "nonce"]
    /\ UNCHANGED <<handler, env, client, clock, minted, accepted, cookie, call>>

\* a slip: the nonce is missing from the presence test
MissingFields_NonceNotTested(address, signature, nonce) ==
    ~Truthy(address) \/ signature.t = "undef"

\* !address || !signature || !nonce
MissingFields(address, signature, nonce) ==
    ~Truthy(address) \/ signature.t = "undef" \/ ~Truthy(nonce)

\* !signature.signature || !signature.publicKey
BadSignatureFormat(signature) ==
    ~HTruthy(signature.signature) \/ ~HTruthy(signature.publicKey)

\* the response after n of the two checks ran
Checked(r, n) == [r EXCEPT !.checks = n]

\* a slip: an expired nonce is told apart from the other refused nonces
NonceRejection_NamesExpiry(nonce) ==
    IF \E i \in issued : nonce = JStr(i.nonce) /\ clock - i.at > NONCE_EXPIRY_MS
    THEN Checked(Response("create-jwt", 401, "Nonce expired"), 1)
    ELSE Checked(Response("create-jwt", 401, "Invalid or expired nonce"), 1)

\* the response to a request whose nonce validateNonce refused, whatever
\* the nonce and the reason
NonceRejection(nonce) ==
    Checked(Response("create-jwt", 401, "Invalid or expired nonce"), 1)

\* a slip: the result of verifyWalletSignature is not tested
CreateJwtResponse_SignatureNotTested(body, address, signature, nonce) ==
    IF body # "object"
    THEN Response("create-jwt", 500, "Authentication failed")
    ELSE IF MissingFields(address, signature, nonce)
    THEN Response("create-jwt", 400, "Missing required fields")
    ELSE IF BadSignatureFormat(signature)
    THEN Response("create-jwt", 400, "Invalid signature format")
    ELSE IF ~validateNonce(nonce, clock).value
    THEN Checked(Response("create-jwt", 401, "Invalid or expired nonce"), 1)
    ELSE [Checked(Response("create-jwt", 200, ""), 2) EXCEPT
             !.token = JStr(createToken(address, clock)),
             !.address = address]

\* a server that remembers the nonce it accepted and refuses it afterwards
CreateJwtResponse_NonceSingleUse(body, address, signature, nonce) ==
    IF body # "object"
    THEN Response("create-jwt", 500, "Authentication failed")
    ELSE IF MissingFields(address, signature, nonce)
    THEN Response("create-jwt", 400, "Missing required fields")
    ELSE IF BadSignatureFormat(signature)
    THEN Response("create-jwt", 400, "Invalid signature format")
    ELSE IF ~validateNonce(nonce, clock).value \/ (accepted.any /\ accepted.nonce = nonce)
    THEN Checked(Response("create-jwt", 401, "Invalid or expired nonce"), 1)
    ELSE IF ~verifyWalletSignature(AUTH_MESSAGE, signature, address).value
    THEN Checked(Response("create-jwt", 401, "Invalid signature"), 2)
    ELSE [Checked(Response("create-jwt", 200, ""), 2) EXCEPT
             !.token = JStr(createToken(address, clock)),
             !.address = address]

\* a server that keeps the sessions it opened and opens one per address
CreateJwtResponse_OneTokenPerAddress(body, address, signature, nonce) ==
    IF body # "object"
    THEN Response("create-jwt", 500, "Authentication failed")
    ELSE IF MissingFields(address, signature, nonce)
    THEN Response("create-jwt", 400, "Missing required fields")
    ELSE IF BadSignatureFormat(signature)
    THEN Response("create-jwt", 400, "Invalid signature format")
    ELSE IF ~validateNonce(nonce, clock).value
    THEN NonceRejection(nonce)
    ELSE IF ~verifyWalletSignature(AUTH_MESSAGE, signature, address).value
    THEN Checked(Response("create-jwt", 401, "Invalid signature"), 2)
    ELSE IF \E m \in minted : m.address = address
    THEN Checked(Response("create-jwt", 401, "Already signed in"), 2)
    ELSE [Checked(Response("create-jwt", 200, ""), 2) EXCEPT
             !.token = JStr(createToken(address, clock)),
             !.address = address]

\* the response of POST /api/auth/create-jwt: destructuring a body that is
\* null throws, and the handler's catch answers 500; otherwise the body's
\* fields {address, signature, nonce} go through the two presence tests and
\* the two checks
CreateJwtResponse(body, address, signature, nonce) ==
    IF body # "object"
    THEN Response("create-jwt", 500, "Authentication failed")
    ELSE IF MissingFields(address, signature, nonce)
    THEN Response("create-jwt", 400, "Missing required fields")
    ELSE IF BadSignatureFormat(signature)
    THEN Response("create-jwt", 400, "Invalid signature format")
    ELSE LET nonceValid == validateNonce(nonce, clock)
         IN  IF nonceValid.threw
             THEN Checked(Response("create-jwt", 500, "Authentication failed"), 1)
             ELSE IF ~nonceValid.value
             THEN NonceRejection(nonce)
             ELSE LET signatureValid == verifyWalletSignature(AUTH_MESSAGE, signature, address)
                  IN  IF signatureValid.threw
                      THEN Checked(Response("create-jwt", 500, "Authentication failed"), 2)
                      ELSE IF ~signatureValid.value
                      THEN Checked(Response("create-jwt", 401, "Invalid signature"), 2)
                      ELSE [Checked(Response("create-jwt", 200, ""), 2) EXCEPT
                               !.token = JStr(createToken(address, clock)),
                               !.address = address]

\* the reading at which the server stamped an issued nonce
IssuedAt(nonce) == (CHOOSE i \in issued : JStr(i.nonce) = nonce).at

\* the record of the accepted requests after the response r to a request
\* with this envelope and nonce
Accept(r, signature, nonce) ==
    IF r.status # 200 THEN accepted
    ELSE IF ~accepted.any
    THEN [any |-> TRUE, signature |-> signature, nonce |-> nonce,
          issuedAt |-> IssuedAt(nonce), uses |-> 1]
    ELSE IF nonce = accepted.nonce /\ accepted.uses < MaxUses
    THEN [accepted EXCEPT !.uses = @ + 1]
    ELSE accepted

\* POST /api/auth/create-jwt
CreateJwtPOST(body, address, signature, nonce) ==
    /\ LET r == CreateJwtResponse(body, address, signature, nonce)
       IN  /\ resp' = r
           /\ minted' = IF r.status = 200
                        THEN minted \cup {[token |-> r.token.s, address |-> address,
                                         at |-> clock]}
                        ELSE minted
           /\ accepted' = Accept(r, signature, nonce)
    /\ Cardinality(minted') <= MaxTokens
    /\ req' = [NoReq EXCEPT !.ep = "create-jwt", !.body = body, !.address = address,
                            !.signature = signature, !.nonce = nonce]
    /\ UNCHANGED <<handler, env, client, clock, issued, cookie, call>>

\* a slip: secure is set to true
WalletLoginResponse_AlwaysSecure(token) ==
    IF ~Truthy(token)
    THEN Response("wallet-login", 400, "Token is required")
    ELSE IF verifyToken(token, clock).null
    THEN Response("wallet-login", 401, "Invalid token")
    ELSE [Response("wallet-login", 200, "") EXCEPT
             !.setCookie = [AuthCookie(token, TOKEN_LIFETIME_S) EXCEPT !.secure = TRUE]]

\* a slip: the cookie is not set on the response
WalletLoginPOST_NoCookie(token) ==
    /\ resp' = IF ~Truthy(token)
               THEN Response("wallet-login", 400, "Token is required")
               ELSE IF verifyToken(token, clock).null
               THEN Response("wallet-login", 401, "Invalid token")
               ELSE Response("wallet-login", 200, "")
    /\ req' = [NoReq EXCEPT !.ep = "wallet-login", !.token = token]
    /\ UNCHANGED <<handler, env, client, clock, issued, minted, accepted, cookie, call>>

\* the response of POST /api/auth/wallet-login to the body {token}
WalletLoginResponse(token) ==
    IF ~Truthy(token)
    THEN Response("wallet-login", 400, "Token is required")
    ELSE IF verifyToken(token, clock).threw
    THEN Response("wallet-login", 500, "Failed to set auth cookie")
    ELSE IF verifyToken(token, clock).null
    THEN Response("wallet-login", 401, "Invalid token")
    ELSE [Response("wallet-login", 200, "") EXCEPT
             !.setCookie = AuthCookie(token, TOKEN_LIFETIME_S)]

\* POST /api/auth/wallet-login
WalletLoginPOST(token) ==
    /\ resp' = WalletLoginResponse(token)
    /\ req' = [NoReq EXCEPT !.ep = "wallet-login", !.token = token]
    /\ UNCHANGED <<handler, env, client, clock, issued, minted, accepted, cookie, call>>

\* a slip: the cookie is left as it is
LogoutResponse_KeepsCookie == Response("wallet-logout", 200, "")

\* the response of POST /api/auth/wallet-logout
LogoutResponse ==
    [Response("wallet-logout", 200, "") EXCEPT !.setCookie = AuthCookie(JStr(<<>>), 0)]

\* POST /api/auth/wallet-logout
WalletLogoutPOST ==
    /\ resp' = LogoutResponse
    /\ req' = [NoReq EXCEPT !.ep = "wallet-logout"]
    /\ UNCHANGED <<handler, env, client, clock, issued, minted, accepted, cookie, call>>

\* a slip: an expired token is told apart from the other failures
CheckResponse_NamesExpiry(c) ==
    IF ~Truthy(c)
    THEN Response("check", 401, "")
    ELSE LET verified == verifyToken(c, clock)
         IN  IF verified.null
             THEN IF c.t = "str" /\ IsJws(c.s) /\ c.s[1].jwt[1] = secret
                  THEN Response("check", 401, "Token expired")
                  ELSE Response("check", 401, "")
             ELSE [Response("check", 200, "") EXCEPT
                      !.authenticated = TRUE,
                      !.address = PayloadAddress(verified)]

\* the response of GET /api/auth/check to the Cookie header authToken=c
CheckResponse(c) ==
    IF ~Truthy(c)
    THEN Response("check", 401, "")
    ELSE LET verified == verifyToken(c, clock)
         IN  IF verified.threw
             THEN Response("check", 500, "")
             ELSE IF verified.null
             THEN Response("check", 401, "")
             ELSE [Response("check", 200, "") EXCEPT
                      !.authenticated = TRUE,
                      !.address = PayloadAddress(verified)]

\* GET /api/auth/check
CheckGET(c) ==
    /\ resp' = CheckResponse(c)
    /\ req' = [NoReq EXCEPT !.ep = "check", !.cookie = c]
    /\ UNCHANGED <<handler, env, client, clock, issued, minted, accepted, cookie, call>>

\* the browser takes the response: a Set-Cookie with max-age 0 removes the
\* cookie, any other Set-Cookie stores its value
Receive ==
    /\ resp # NoResp
    /\ cookie' = IF ~resp.setCookie.set THEN cookie
                 ELSE IF resp.setCookie.maxAge = 0 THEN JUndef
                 ELSE resp.setCookie.value
    /\ req' = NoReq
    /\ resp' = NoResp
    /\ UNCHANGED <<handler, env, client, clock, issued, minted, accepted, call>>

Init == InitAt(ProtocolInstants)

\* one request at a time; the client sends the browser's cookie or one it
\* wrote itself
Next ==
    \/ \E t \in ProtocolInstants : Tick(t)
    \/ /\ resp = NoResp
       /\ \E r \in ProtocolDraws : NonceGET(r)
    \/ /\ resp = NoResp
       /\ \E a \in AddressInputs, e \in EnvelopeInputs, n \in RequestNonces :
              CreateJwtPOST("object", a, e, n)
    \/ /\ resp = NoResp
       /\ CreateJwtPOST("null", JUndef, NoEnvelope, JUndef)
    \/ /\ resp = NoResp
       /\ \E t \in TokenInputs : WalletLoginPOST(t)
    \/ /\ resp = NoResp
       /\ WalletLogoutPOST
    \/ /\ resp = NoResp
       /\ \E c \in {cookie} \cup TokenInputs : CheckGET(c)
    \/ Receive

Spec == Init /\ [][Next]_vars

----------------------------------------------------------------------------
(* Sessions: the cookie routes and the protected page, over the lifetime of
   a token *)

UpperCase == <<"A", "B", "C", "D", "E", "F">>
LowerCase == <<"a", "b", "c", "d", "e", "f">>

\* String.prototype.toLowerCase, one character
LowerCh(e) ==
    IF \E i \in 1..Len(UpperCase) : e = Ch(UpperCase[i])
    THEN Ch(LowerCase[CHOOSE i \in 1..Len(UpperCase) : e = Ch(UpperCase[i])])
    ELSE e

toLowerCase(s) == [i \in 1..Len(s) |-> LowerCh(s[i])]

\* the address of account A as a wallet may write it, in capitals
AddrUpper == Str(<<"0", "x", "A", "1">>)

\* what the page renders
Unauthorized == "Unauthorized, requires sign-in to wallet to access this page."
Authenticated == "Authenticated"

\* what ProtectedPage renders for the Cookie header authToken=c and the path
\* /protected/<walletAddress>: toLowerCase of an address that is no string
\* throws, and the page has no try block
PageResponse(c, walletAddress) ==
    LET verified == verifyToken(c, clock)
    IN  IF verified.null
        THEN [Response("page", 200, "") EXCEPT !.error = Unauthorized]
        ELSE LET address == PayloadAddress(verified)
             IN  IF address.t # "str"
                 THEN Response("page", 500, "TypeError")
                 ELSE IF toLowerCase(address.s) # toLowerCase(walletAddress)
                 THEN [Response("page", 200, "") EXCEPT !.error = Unauthorized]
                 ELSE [Response("page", 200, "") EXCEPT
                          !.error = Authenticated, !.address = address]

\* GET /protected/<walletAddress>
ProtectedPage(c, walletAddress) ==
    /\ resp' = PageResponse(c, walletAddress)
    /\ req' = [NoReq EXCEPT !.ep = "page", !.cookie = c, !.path = walletAddress]
    /\ UNCHANGED <<handler, env, client, clock, issued, minted, accepted, cookie, call>>

\* the readings of the clock before and after the lifetime of a token
SessionInstants == {Epoch, Epoch + TOKEN_LIFETIME_S * 1000 + 1}

Envs == {"production", "development"}

\* the addresses the sessions are opened for, and the paths asked for
SessionAddresses == {JStr(AddrA), JStr(AddrUpper)}
PathAddresses == {AddrA, AddrB}

\* the cookies a client sends: the browser's, or a string it wrote itself
CookieInputs == {cookie} \cup {t \in TokenInputs : t.t # "num"}

InitSession == InitIn(SessionInstants, Envs)

\* tokens are obtained as in Spec, with a good signature and an issued nonce
NextSession ==
    \/ \E t \in SessionInstants : Tick(t)
    \/ /\ resp = NoResp
       /\ \E r \in ProtocolDraws : NonceGET(r)
    \/ /\ resp = NoResp
       /\ \E a \in SessionAddresses, i \in issued :
              CreateJwtPOST("object", a, Signed(AUTH_MESSAGE, "K1"), JStr(i.nonce))
    \/ /\ resp = NoResp
       /\ \E t \in TokenInputs : WalletLoginPOST(t)
    \/ /\ resp = NoResp
       /\ WalletLogoutPOST
    \/ /\ resp = NoResp
       /\ \E c \in CookieInputs : CheckGET(c)
    \/ /\ resp = NoResp
       /\ \E c \in CookieInputs, w \in PathAddresses : ProtectedPage(c, w)
    \/ Receive

SpecSession == InitSession /\ [][NextSession]_vars

----------------------------------------------------------------------------
(* Properties of the sessions, under SpecSession *)

\* the token is absent, no compact JWS, MACed under another key, or past
\* its exp
Unverifiable(token, now) ==
    \/ ~Truthy(token)
    \/ token.t # "str"
    \/ ~IsJws(token.s)
    \/ token.s[1].jwt[1] # secret
    \/ TokenExp(token.s) # NoExp /\ now > TokenExp(token.s) * 1000

\* C21 - POST /wallet-login sets a cookie if and only if the body's token
\* passes verifyToken; the cookie is authToken with exactly that token,
\* HttpOnly, SameSite=Lax, path /, max-age 24h, and Secure exactly in
\* production; a missing token gives 400 and a token that fails gives 401,
\* both without a cookie.
C21_LoginCookie ==
    resp.ep = "wallet-login" =>
        /\ resp.setCookie.set <=> ~Unverifiable(req.token, resp.at)
        /\ resp.setCookie.set =>
               /\ resp.status = 200
               /\ resp.setCookie =
                      [set |-> TRUE, value |-> req.token, maxAge |-> 24 * 60 * 60,
                       httpOnly |-> TRUE, sameSite |-> "lax", path |-> "/",
                       secure |-> (env = "production")]
        /\ ~Truthy(req.token) => resp.status = 400
        /\ (Truthy(req.token) /\ Unverifiable(req.token, resp.at)) => resp.status = 401

\* a cookie set outside production, without Secure
C21_Witness ==
    /\ resp.ep = "wallet-login"
    /\ env = "development"
    /\ \E m \in minted : req.token = JStr(m.token)
    /\ resp.setCookie.set
    /\ ~resp.setCookie.secure

\* the address claim of a compact JWS, undefined when it has none
StoredAddress(token) ==
    IF token.s[1].jwt[2] = "address" THEN token.s[1].jwt[3] ELSE JUndef

\* C22 - GET /check answers every unauthenticated case alike: an absent
\* cookie, a malformed token, a token with a bad MAC and an expired token
\* all get 401 {authenticated:false} and nothing else; a cookie whose token
\* verifies gets authenticated:true with the address stored in the token.
C22_CheckUniform ==
    resp.ep = "check" =>
        /\ Unverifiable(req.cookie, resp.at) =>
               resp = [NoResp EXCEPT !.ep = "check", !.status = 401, !.at = resp.at]
        /\ ~Unverifiable(req.cookie, resp.at) =>
               /\ resp.status = 200
               /\ resp.authenticated
               /\ resp.address = StoredAddress(req.cookie)

\* an expired token of the server gets the answer an absent cookie gets
C22_Witness ==
    /\ resp.ep = "check"
    /\ \E m \in minted : req.cookie = JStr(m.token) /\ resp.at > TokenExp(m.token) * 1000
    /\ resp.status = 401
    /\ ~resp.authenticated

\* the logout request answers success and clears the cookie, and leaves
\* everything else as it is; once the browser has taken the answer, /check
\* with the browser's cookie answers 401, and every token minted before is
\* accepted by verifyToken and by /wallet-login while it has not expired
C23_Step ==
    /\ (resp = NoResp /\ resp'.ep = "wallet-logout") =>
           /\ resp'.status = 200
           /\ resp'.setCookie.set
           /\ resp'.setCookie.value = JStr(<<>>)
           /\ resp'.setCookie.maxAge = 0
           /\ UNCHANGED <<clock, env, issued, minted, accepted, cookie>>
    /\ (resp.ep = "wallet-logout" /\ resp' = NoResp) =>
           /\ CheckResponse(cookie)'.status = 401
           /\ UNCHANGED <<clock, env, issued, minted, accepted>>
           /\ \A m \in minted :
                  clock \div 1000 < TokenExp(m.token) =>
                      /\ ~verifyToken(JStr(m.token), clock)'.null
                      /\ WalletLoginResponse(JStr(m.token))'.status = 200

\* C23 - logout only overwrites the cookie: POST /wallet-logout always
\* answers success and sets authToken to the empty value with max-age 0,
\* after which GET /check with the browser's cookie answers 401; nothing
\* else changes, and a token minted before is still accepted by verifyToken
\* and /wallet-login until its expiry.
C23_LogoutOnlyCookie == [][C23_Step]_vars

\* the logout of a browser that holds the cookie of an unexpired session
C23_Witness ==
    /\ resp.ep = "wallet-logout"
    /\ \E m \in minted : cookie = JStr(m.token) /\ clock \div 1000 < TokenExp(m.token)

\* verifyToken accepts the cookie and the token's address is the path's
\* address, letter case ignored
PageAccepts ==
    LET verified == verifyToken(req.cookie, resp.at)
    IN  /\ ~verified.null
        /\ PayloadAddress(verified).t = "str"
        /\ toLowerCase(PayloadAddress(verified).s) = toLowerCase(req.path)

\* C24 - the protected page renders its content if and only if verifyToken
\* accepts the cookie's token and the token's address equals the path's
\* walletAddress ignoring letter case; in every other case it renders the
\* Unauthorized message.
C24_PageDecision ==
    resp.ep = "page" =>
        /\ resp.error = Authenticated <=> PageAccepts
        /\ ~PageAccepts => resp.status = 200 /\ resp.error = Unauthorized

----------------------------------------------------------------------------
(* Properties of the protocol, under Spec, and of verifyToken, under SpecToken *)

\* the request passed the two presence tests of /create-jwt
FieldsPresent ==
    /\ Truthy(req.address)
    /\ req.signature.t = "obj"
    /\ HTruthy(req.signature.signature)
    /\ HTruthy(req.signature.publicKey)
    /\ Truthy(req.nonce)

BothChecksPass ==
    /\ validateNonce(req.nonce, resp.at).value
    /\ verifyWalletSignature(AUTH_MESSAGE, req.signature, req.address).value

\* C1 - /create-jwt with all fields present answers 200 with a token if and
\* only if validateNonce and verifyWalletSignature both return true; the
\* token is then createToken of the request's address, and otherwise the
\* response holds no token.
C1_TokenIffBothChecks ==
    (resp.ep = "create-jwt" /\ FieldsPresent) =>
        /\ (resp.status = 200 /\ resp.token # JUndef) <=> BothChecksPass
        /\ BothChecksPass =>
              /\ resp.token = JStr(createToken(req.address, resp.at))
              /\ resp.address = req.address
        /\ ~BothChecksPass => resp.token = JUndef /\ resp.status # 200

C1_Witness ==
    /\ resp.ep = "create-jwt"
    /\ FieldsPresent
    /\ BothChecksPass
    /\ resp.status = 200
    /\ resp.token = JStr(createToken(req.address, resp.at))

\* C2 - /wallet-login sets the cookie, and /check answers authenticated:true,
\* only for a token that an earlier /create-jwt returned after both checks
\* had passed.
C2_SessionOnlyAfterBothChecks ==
    /\ (resp.ep = "wallet-login" /\ resp.setCookie.set) =>
           \E m \in minted : resp.setCookie.value = JStr(m.token)
    /\ (resp.ep = "check" /\ resp.authenticated) =>
           \E m \in minted : req.cookie = JStr(m.token)

\* C3 - a non-null result of verifyToken carries the address given to the
\* createToken call that minted the input; no other string is accepted.
C3_VerifyTokenOnlyMinted ==
    (call.fn = "verifyToken" /\ call.ok) =>
        \E m \in minted : call.arg = JStr(m.token) /\ call.out = m.address

\* C4 - /create-jwt issues a token for address A only when the submitted
\* signature was made with the private key that belongs to A.
C4_TokenProvesOwnership ==
    (resp.ep = "create-jwt" /\ resp.status = 200) =>
        /\ req.signature.signature.bytes.kind = "sig"
        /\ req.signature.signature.bytes.by = OwnerKey(req.address)

\* C5 - a signature envelope accepted together with nonce N obtains no token
\* once more than 5 minutes have passed since N was issued, whatever nonce
\* it is submitted with.
C5_ReplayBoundedByWindow ==
    ( /\ resp.ep = "create-jwt"
      /\ resp.status = 200
      /\ accepted.any
      /\ req.signature = accepted.signature )
    => resp.at - accepted.issuedAt <= NONCE_EXPIRY_MS

\* the field is the string 0x + the hex digits of exactly len bytes
WellFormedHex(h, len) ==
    h.t = "str" /\ h.pre = "0x" /\ h.tail = "" /\ h.bytes.len = len

WellFormedEnvelope(e) ==
    /\ e.t = "obj"
    /\ WellFormedHex(e.signature, 64)
    /\ WellFormedHex(e.publicKey, 32)

\* the request carries a good signature over the fixed message, well encoded
ValidSignatureSent == \E k \in Keys : req.signature = Signed(AUTH_MESSAGE, k)

\* the request carries an issued nonce and arrived within 5 minutes of its issue
FreshNonceSent ==
    \E i \in issued :
        /\ req.nonce = JStr(i.nonce)
        /\ 0 <= resp.at - i.at
        /\ resp.at - i.at <= NONCE_EXPIRY_MS

\* the token m is within its lifetime when the response is made
Unexpired(m) == resp.at \div 1000 < TokenExp(m.token)

\* C16 - the happy path: GET /nonce answers 200 with a nonce; POST /create-jwt
\* with an address, a valid signature over the fixed message and that nonce
\* within 5 minutes answers 200 with a token for the address; POST
\* /wallet-login with a returned token answers 200 and sets it as the cookie;
\* GET /check with that cookie answers 200, authenticated:true and the address.
C16_HappyPath ==
    /\ resp.ep = "nonce" =>
           /\ resp.status = 200
           /\ \E i \in issued : resp.body = JStr(i.nonce) /\ i.at = resp.at
    /\ ( /\ resp.ep = "create-jwt"
         /\ req.body = "object"
         /\ req.address.t = "str"
         /\ Truthy(req.address)
         /\ ValidSignatureSent
         /\ FreshNonceSent )
       => /\ resp.status = 200
          /\ resp.token = JStr(createToken(req.address, resp.at))
          /\ resp.address = req.address
    /\ \A m \in minted :
           (resp.ep = "wallet-login" /\ req.token = JStr(m.token) /\ Unexpired(m))
           => /\ resp.status = 200
              /\ resp.setCookie.set
              /\ resp.setCookie.value = req.token
              /\ resp.setCookie.maxAge = TOKEN_LIFETIME_S
    /\ \A m \in minted :
           (resp.ep = "check" /\ req.cookie = JStr(m.token) /\ Unexpired(m))
           => /\ resp.status = 200
              /\ resp.authenticated
              /\ resp.address = m.address

\* the last step of the path: the browser's cookie, set by /wallet-login to
\* a token /create-jwt returned for address A, is sent to /check
C16_Witness ==
    /\ resp.ep = "check"
    /\ cookie # JUndef
    /\ req.cookie = cookie
    /\ \E m \in minted : cookie = JStr(m.token) /\ m.address = JStr(AddrA)
    /\ resp.status = 200
    /\ resp.authenticated
    /\ resp.address = JStr(AddrA)

\* C17 - replay within the window: every /create-jwt request that carries
\* the nonce of an accepted request and a valid signature, within 5 minutes
\* of the nonce's issue, is answered 200 with a token; the first use does
\* not consume the nonce.
C17_ReplayWithinWindow ==
    ( /\ resp.ep = "create-jwt"
      /\ accepted.any
      /\ req.nonce = accepted.nonce
      /\ Truthy(req.address)
      /\ ValidSignatureSent
      /\ FreshNonceSent )
    => /\ resp.status = 200
       /\ resp.token = JStr(createToken(req.address, resp.at))

\* the second accepted request with one nonce
C17_Witness ==
    /\ resp.ep = "create-jwt"
    /\ resp.status = 200
    /\ req.nonce = accepted.nonce
    /\ accepted.uses = 2
    /\ resp.token # JUndef

\* address, signature or nonce is left out of the body
FieldOmitted(r) ==
    r.address = JUndef \/ r.signature = NoEnvelope \/ r.nonce = JUndef

\* a /create-jwt request with a field left out is answered 400 without a
\* token, neither check is run and no token is minted
C18_Step ==
    (resp = NoResp /\ resp'.ep = "create-jwt" /\ req'.body = "object" /\ FieldOmitted(req'))
    => /\ resp'.status = 400
       /\ resp'.token = JUndef
       /\ resp'.checks = 0
       /\ minted' = minted

\* C18 - missing fields: POST /create-jwt with address, signature or nonce
\* omitted returns 400 and issues no token, and runs neither validateNonce
\* nor verifyWalletSignature.
C18_MissingFields == [][C18_Step]_vars

\* the nonce is left out of a request whose other fields are good
C18_Witness ==
    /\ resp.ep = "create-jwt"
    /\ req.nonce = JUndef
    /\ req.address = JStr(AddrA)
    /\ ValidSignatureSent
    /\ resp.status = 400
    /\ resp.checks = 0

\* the body is no object, or a field that must be a string is a number
IllTyped(r) ==
    \/ r.body # "object"
    \/ r.address.t = "num"
    \/ r.nonce.t = "num"
    \/ r.signature.t = "obj" /\ r.signature.signature.t = "num"
    \/ r.signature.t = "obj" /\ r.signature.publicKey.t = "num"

\* C19 - ill-typed input is rejected at the boundary: POST /create-jwt with
\* a body that is no object or a field of the wrong type is answered with a
\* 400-class status, never with 401, 500 or a token.
C19_IllTypedRejected ==
    (resp.ep = "create-jwt" /\ IllTyped(req)) =>
        resp.status >= 400 /\ resp.status < 500 /\ resp.status # 401

\* C20 - malformed signature encoding: with a valid nonce, a signature or
\* publicKey string that is not 0x-prefixed hex of the required length makes
\* verifyWalletSignature return false and /create-jwt answer 401 "Invalid
\* signature", never 500 or a token.
C20_MalformedEncodingRejected ==
    ( /\ resp.ep = "create-jwt"
      /\ req.body = "object"
      /\ FieldsPresent
      /\ req.signature.signature.t = "str"
      /\ req.signature.publicKey.t = "str"
      /\ ~WellFormedEnvelope(req.signature)
      /\ validateNonce(req.nonce, resp.at).value )
    => /\ ~verifyWalletSignature(AUTH_MESSAGE, req.signature, req.address).value
       /\ resp.status = 401
       /\ resp.error = "Invalid signature"

----------------------------------------------------------------------------
(* Properties of the token issuer and verifier, under SpecToken *)

VerifyCalled == call.fn = "verifyToken"

\* C11 - token round-trip: verifyToken called on the token createToken made
\* for an address, at the clock reading at which it was made, returns a
\* payload whose address is that address.
C11_TokenRoundTrip ==
    \A m \in minted :
        (VerifyCalled /\ call.arg = JStr(m.token) /\ call.now = m.at)
            => call.ok /\ ~call.threw /\ call.out = m.address

\* the round trip of the empty address string
C11_Witness ==
    \E m \in minted :
        /\ VerifyCalled
        /\ call.arg = JStr(m.token)
        /\ call.now = m.at
        /\ m.address = JStr(<<>>)
        /\ call.ok
        /\ call.out = m.address

\* C12 - token expiry: every minted token carries as exp the second of its
\* issue plus 24 hours, and verifyToken returns null for a token issued at
\* T at every reading from T + 24h + 1ms on.
C12_TokenExpiry ==
    \A m \in minted :
        /\ TokenExp(m.token) = (m.at \div 1000) + TOKEN_LIFETIME_S
        /\ ( /\ VerifyCalled
             /\ call.arg = JStr(m.token)
             /\ call.now >= m.at + TOKEN_LIFETIME_S * 1000 + 1 )
           => ~call.ok /\ call.out = JUndef

\* a token issued in the middle of a second, verified 24h + 1ms later
C12_Witness ==
    \E m \in minted :
        /\ VerifyCalled
        /\ call.arg = JStr(m.token)
        /\ m.at % 1000 # 0
        /\ call.now = m.at + TOKEN_LIFETIME_S * 1000 + 1
        /\ ~call.ok

\* C13 - verifyToken never throws, and returns null for an absent token, a
\* malformed string, a token whose MAC is not one under the server's secret
\* and a token past its expiry.
C13_VerifyTokenTotal ==
    VerifyCalled =>
        /\ ~call.threw
        /\ Unverifiable(call.arg, call.now) => ~call.ok

\* a token with the claims of a minted one, MACed under another key
C13_Witness ==
    /\ VerifyCalled
    /\ call.arg.t = "str"
    /\ IsJws(call.arg.s)
    /\ call.arg.s[1].jwt[1] = OtherKey
    /\ ~call.ok
    /\ ~call.threw

----------------------------------------------------------------------------
(* Properties of the wallet signature verifier, under SpecVerifier *)

SignatureCalled == call.fn = "verifyWalletSignature"

\* the call's signature argument holds a signature over the call's message
\* and a public key, both well encoded
SignatureOverMessage ==
    /\ SignatureCalled
    /\ WellFormedEnvelope(call.signature)
    /\ call.signature.signature.bytes.kind = "sig"
    /\ call.signature.signature.bytes.msg = call.message
    /\ call.signature.publicKey.bytes.kind = "pub"

\* C14 - signature verification correctness: for a signature over message M
\* made with the private key of a pair, verifyWalletSignature returns true
\* with the pair's public key and false with every other public key.
C14_SignatureCorrect ==
    SignatureOverMessage =>
        /\ ~call.threw
        /\ call.ok <=>
               call.signature.publicKey.bytes.by = call.signature.signature.bytes.by

\* a good signature checked against another pair's public key
C14_Witness ==
    /\ SignatureOverMessage
    /\ call.signature.publicKey.bytes.by # call.signature.signature.bytes.by
    /\ ~call.ok

\* C15 - verifyWalletSignature does not depend on the claimed address: the
\* call's result is the result for the same message and signature envelope
\* with any other address.
C15_AddressIgnored ==
    SignatureCalled =>
        \A a \in VerifierAddresses :
            verifyWalletSignature(call.message, call.signature, a)
                = [threw |-> call.threw, value |-> call.ok]

\* a signature by the key of one account is accepted for another account
C15_Witness ==
    /\ SignatureOverMessage
    /\ call.ok
    /\ call.address = JStr(AddrA)
    /\ call.signature.publicKey.bytes.by # OwnerKey(call.address)

----------------------------------------------------------------------------
(* Properties of the nonce codec, under SpecCodec *)

ValidateCalled == call.fn = "validateNonce"

\* the call validated the issued nonce i, unmodified
ValidatedIssued(i) == ValidateCalled /\ call.arg = JStr(i.nonce)

\* C6 - nonce round-trip: validateNonce called on a nonce of createNonce at
\* the clock reading at which it was created returns true.
C6_NonceRoundTrip ==
    \A i \in issued :
        ValidatedIssued(i) /\ call.now = i.at => call.ok /\ ~call.threw

C6_Witness ==
    \E i \in issued : ValidatedIssued(i) /\ call.now = i.at /\ call.ok

\* validateNonce answers within the window and past it as the claim says
C7_Window ==
    \A i \in issued :
        ValidatedIssued(i) =>
            /\ (i.at <= call.now /\ call.now <= i.at + NONCE_EXPIRY_MS - 1000) => call.ok
            /\ call.now >= i.at + NONCE_EXPIRY_MS + 1 => ~call.ok

\* a nonce rejected as expired at one reading is rejected at every reading
\* that is not earlier
C7_Monotone ==
    \A i \in issued :
        ( /\ clock' >= clock
          /\ clock > i.at + NONCE_EXPIRY_MS
          /\ ~validateNonce(JStr(i.nonce), clock).value )
        => ~validateNonce(JStr(i.nonce), clock').value

\* C7 - nonce expiry: a nonce created at T is accepted at every reading from
\* T to T + 4min59s, rejected at T + 5min + 1ms and later, and with a
\* non-decreasing clock never accepted again once rejected as expired.
C7_NonceExpiry == []C7_Window /\ [][C7_Monotone]_vars

C7_Witness ==
    \E i \in issued :
        ValidatedIssued(i) /\ call.now = i.at + NONCE_EXPIRY_MS + 1 /\ ~call.ok

\* m is n with exactly one character of its timestamp or random segment
\* changed, the signature segment kept
SegmentTamper(m, n) ==
    /\ Len(m) = Len(n)
    /\ LET changed == {k \in 1..Len(n) : m[k] # n[k]}
       IN  /\ Cardinality(changed) = 1
           /\ \A k \in changed : k <= Len(n) - 2 /\ n[k] # Bar

\* C8 - tamper sensitivity: a valid nonce with one character of its timestamp
\* or random segment changed is rejected at every clock reading.
C8_NonceTamper ==
    \A i \in issued :
        (ValidateCalled /\ call.arg.t = "str" /\ SegmentTamper(call.arg.s, i.nonce))
            => ~call.ok

\* a tampered nonce is rejected at a reading at which the original is valid
C8_Witness ==
    \E i \in issued :
        /\ ValidateCalled
        /\ call.arg.t = "str"
        /\ SegmentTamper(call.arg.s, i.nonce)
        /\ validateNonce(JStr(i.nonce), call.now).value
        /\ ~call.ok

\* C9 - future-dated nonces: an authentic nonce stamped more than 60 000 ms
\* after the validator's clock is rejected; one stamped at most 60 000 ms
\* after it (and not expired) is accepted.
C9_FutureNonce ==
    \A i \in issued :
        ValidatedIssued(i) =>
            /\ i.at - call.now > CLOCK_SKEW_MS => ~call.ok
            /\ (i.at - call.now <= CLOCK_SKEW_MS /\ call.now - i.at <= NONCE_EXPIRY_MS)
                   => call.ok

C9_Witness ==
    \E i \in issued :
        ValidatedIssued(i) /\ i.at - call.now = CLOCK_SKEW_MS /\ call.ok

\* s is timestamp|random|signature with an authentic signature of the server
\* over timestamp|random
AuthenticNonce(s) ==
    /\ Cardinality({k \in 1..Len(s) : s[k] = Bar}) = 2
    /\ Len(s) >= 2
    /\ s[Len(s) - 1] = Bar
    /\ s[Len(s)].jwt # <<>>
    /\ s[Len(s)].jwt[1] = secret
    /\ s[Len(s)].jwt[2] = "payload"
    /\ s[Len(s)].jwt[3] = JStr(SubSeq(s, 1, Len(s) - 2))

\* C10 - validateNonce is total: it never throws, and it returns false for
\* every string that is not three '|'-separated parts ending in an authentic
\* signature over the first two.
C10_ValidateTotal ==
    ValidateCalled =>
        /\ ~call.threw
        /\ (call.arg.t = "str" /\ ~AuthenticNonce(call.arg.s)) => ~call.ok

\* a string of four parts whose third part is an authentic signature
C10_Witness ==
    /\ ValidateCalled
    /\ call.arg.t = "str"
    /\ Len(Split(call.arg.s, Bar)) = 4
    /\ \E i \in issued : Split(call.arg.s, Bar)[3] = Split(i.nonce, Bar)[3]
    /\ ~call.ok
    /\ ~call.threw

----------------------------------------------------------------------------
(* Further properties of the protocol, under Spec *)

NonceFailure ==
    IF req.nonce.t # "str" THEN "ill-typed"
    ELSE IF Len(Split(req.nonce.s, Bar)) # 3 THEN "malformed"
    ELSE IF ~AuthenticNonce(req.nonce.s) THEN "bad signature"
    ELSE IF resp.at - parseInt(Split(req.nonce.s, Bar)[1]).v > NONCE_EXPIRY_MS THEN "expired"
    ELSE IF resp.at - parseInt(Split(req.nonce.s, Bar)[1]).v < -CLOCK_SKEW_MS THEN "future-dated"
    ELSE "none"

\* C28 - the reason a nonce fails is not observable: /create-jwt with all
\* fields present gives one and the same response, 401 "Invalid or expired
\* nonce", whether the nonce is malformed, carries a bad signature, is
\* expired or is future-dated.
C28_NonceReasonHidden ==
    ( /\ resp.ep = "create-jwt"
      /\ req.body = "object"
      /\ FieldsPresent
      /\ NonceFailure \in {"malformed", "bad signature", "expired", "future-dated"} )
    => resp = [NoResp EXCEPT !.ep = "create-jwt", !.status = 401, !.at = resp.at,
                             !.error = "Invalid or expired nonce", !.checks = 1]

\* an expired nonce is refused
C28_Witness ==
    /\ resp.ep = "create-jwt"
    /\ FieldsPresent
    /\ NonceFailure = "expired"
    /\ resp.status = 401

----------------------------------------------------------------------------
(* The hook useSupraMultiWallet: the flows of the client, one at a time,
   against the five routes *)

\* the messages the flows other than connectWallet give the wallet (signIn
\* gives OTHER_MESSAGE); as with AUTH_MESSAGE, the tail all share is left out
EXPIRY_MESSAGE == "Token Expiry: Sign message to revalidate login to multiwallet"
UPDATED_MESSAGE == "Sign this message to login to multiwallet"

Wallets == {"starkey", "ribbit"}

\* the account the wallet reports to the flow: the user's account A in
\* either wallet, and B when starkey-wallet-updated tells of a switch
Account(flow) == IF flow = "walletUpdated" THEN AddrB ELSE AddrA

\* the flows of a wallet type: the extension events are StarKey's
FlowsOf(wallet) ==
    {"connectWallet", "signIn", "checkAndRevalidateToken", "authFetch", "disconnectWallet"}
    \cup IF wallet = "starkey" THEN {"walletUpdated", "walletDisconnected"} ELSE {}

\* a hook that asks the wallet first and fetches the nonce afterwards
connectWallet_SignsFirst(pc) ==
    IF pc = "begin" THEN "connect"
    ELSE IF pc = "connect" THEN "sign"
    ELSE IF pc = "sign" THEN "nonce"
    ELSE IF pc = "nonce" THEN "create-jwt"
    ELSE IF pc = "create-jwt" THEN "login"
    ELSE "done"

\* the awaits of connectWallet, the same in the starkey and the ribbit
\* branch: the provider's connect, then the authentication flow
connectWallet(pc) ==
    IF pc = "begin" THEN "connect"
    ELSE IF pc = "connect" THEN "nonce"
    ELSE IF pc = "nonce" THEN "sign"
    ELSE IF pc = "sign" THEN "create-jwt"
    ELSE IF pc = "create-jwt" THEN "login"
    ELSE "done"

\* signIn writes the cookie itself and does not post /wallet-login
signIn(pc) ==
    IF pc = "begin" THEN "nonce"
    ELSE IF pc = "nonce" THEN "sign"
    ELSE IF pc = "sign" THEN "create-jwt"
    ELSE "done"

\* checkAndRevalidateToken: a wallet without tokenRevalidation returns at
\* once, and so does a session /check accepts (ok); a session it refuses is
\* revalidated unless justRequestedRelative is set
checkAndRevalidateToken(wallet, pc, ok) ==
    IF pc = "begin" THEN IF wallet = "starkey" THEN "check" ELSE "done"
    ELSE IF pc = "check"
    THEN IF ok \/ client.justRequestedRelative THEN "done" ELSE "nonce"
    ELSE IF pc = "nonce" THEN "sign"
    ELSE IF pc = "sign" THEN "create-jwt"
    ELSE IF pc = "create-jwt" THEN "login"
    ELSE "done"

\* what checkAndRevalidateToken returns when it ends after the await at pc:
\* false for a refused session it does not revalidate
isValid(pc, ok) == ~(pc = "check" /\ ~ok)

\* authFetch: checkAndRevalidateToken first when the wallet has the
\* tokenRevalidation capability, then the request, unless isValid is false
authFetch(wallet, pc, ok) ==
    IF pc = "request" THEN "done"
    ELSE LET next == checkAndRevalidateToken(wallet, pc, ok)
         IN  IF next # "done" THEN next
             ELSE IF isValid(pc, ok) THEN "request"
             ELSE "done"

\* a handler that keeps the session of the account before the switch
handleExtensionEvents_NoLogout(flow, pc, ok) ==
    IF flow = "walletDisconnected" THEN "done"
    ELSE IF pc = "begin" THEN "check"
    ELSE IF pc = "check" THEN "nonce"
    ELSE IF pc = "nonce" THEN "sign"
    ELSE IF pc = "sign" THEN "create-jwt"
    ELSE IF pc = "create-jwt" THEN "login"
    ELSE "done"

\* handleExtensionEvents on starkey-wallet-updated: a session /check accepts
\* is logged out first; on starkey-wallet-disconnected: no request at all
handleExtensionEvents(flow, pc, ok) ==
    IF flow = "walletDisconnected" THEN "done"
    ELSE IF pc = "begin" THEN "check"
    ELSE IF pc = "check" THEN IF ok THEN "logout" ELSE "nonce"
    ELSE IF pc = "logout" THEN "nonce"
    ELSE IF pc = "nonce" THEN "sign"
    ELSE IF pc = "sign" THEN "create-jwt"
    ELSE IF pc = "create-jwt" THEN "login"
    ELSE "done"

\* disconnectWallet: /wallet-logout is in the starkey case only, after
\* provider.disconnect() resolved (ok); a throw goes to the catch
disconnectWallet(wallet, pc, ok) ==
    IF pc = "begin" THEN "disconnect"
    ELSE IF pc = "disconnect" /\ ok /\ wallet = "starkey" THEN "logout"
    ELSE "done"

\* the await that follows the one at pc
After(flow, wallet, pc, ok) ==
    IF flow = "connectWallet" THEN connectWallet(pc)
    ELSE IF flow = "signIn" THEN signIn(pc)
    ELSE IF flow = "checkAndRevalidateToken" THEN checkAndRevalidateToken(wallet, pc, ok)
    ELSE IF flow = "authFetch" THEN authFetch(wallet, pc, ok)
    ELSE IF flow = "disconnectWallet" THEN disconnectWallet(wallet, pc, ok)
    ELSE handleExtensionEvents(flow, pc, ok)

\* the flows that run checkAndRevalidateToken
Revalidating == {"checkAndRevalidateToken", "authFetch"}

\* the message the flow gives signMessage
FlowMessage(flow) ==
    IF flow = "connectWallet" THEN AUTH_MESSAGE
    ELSE IF flow = "signIn" THEN OTHER_MESSAGE
    ELSE IF flow \in Revalidating THEN EXPIRY_MESSAGE
    ELSE UPDATED_MESSAGE

\* a string where /create-jwt expects the envelope: its .signature and
\* .publicKey are undefined
StringSignature == [t |-> "str", signature |-> HUndef, publicKey |-> HUndef]

\* the value the flow posts as signature: what signMessage returned, except
\* that the starkey-wallet-updated handler posts signResult.signature;
\* JSON.stringify leaves an undefined one out
Posted(flow, signature) ==
    IF flow = "walletUpdated" /\ signature # NoEnvelope THEN StringSignature
    ELSE signature

\* r.text() and the token of response.json(): undefined on an error body
text(r) == r.body
json(r) == r.token

\* String(v) as setItem and a template literal apply it
Undefined == Str(<<"u", "n", "d", "e", "f", "i", "n", "e", "d">>)
String(v) == IF v.t = "undef" THEN JStr(Undefined) ELSE v

\* what the flow returns when it ends after the await at pc
Returns(flow, wallet, pc, ok) ==
    IF flow = "connectWallet" THEN "true"
    ELSE IF flow = "checkAndRevalidateToken"
    THEN IF isValid(pc, ok) THEN "true" ELSE "false"
    ELSE IF flow = "authFetch"
    THEN IF pc = "request" \/ (pc = "begin" /\ wallet # "starkey") THEN "response" ELSE "threw"
    ELSE "undefined"

\* what it returns when signMessage throws: connectWallet and
\* checkAndRevalidateToken catch and return false, on which authFetch
\* throws; signIn does not catch; the handler reports a toast
Caught(flow) ==
    IF flow \in {"connectWallet", "checkAndRevalidateToken"} THEN "false"
    ELSE IF flow \in {"signIn", "authFetch"} THEN "threw"
    ELSE "undefined"

\* the flow's record when it is called: its locals are new, its signMessage
\* is the one of the render it was called from; connectWallet(walletType)
\* selects walletType for the renders to come; resetWalletData clears
\* isSigningWallet for StarKey
Started(flow, wallet) ==
    LET first == After(flow, wallet, "begin", FALSE)
    IN  [NoClient EXCEPT
            !.flow = flow,
            !.wallet = wallet,
            !.pc = first,
            !.session = cookie,
            !.signer = client.selectedWallet,
            !.selectedWallet = IF flow = "connectWallet" THEN wallet ELSE client.selectedWallet,
            !.other = client.other,
            !.signing = IF flow = "walletDisconnected" THEN FALSE ELSE client.signing,
            !.justRequestedRelative = client.justRequestedRelative,
            !.result = IF first = "done"
                       THEN Returns(flow, wallet, "begin", FALSE) ELSE "none"]

\* a flow begins; connectWallet is given its wallet type, the other flows
\* work on the selected wallet
Begin(flow, wallet) ==
    /\ client.pc \in {"idle", "done"}
    /\ resp = NoResp
    /\ flow \in FlowsOf(wallet)
    /\ flow # "connectWallet" => wallet = client.selectedWallet
    /\ client' = Started(flow, wallet)
    /\ UNCHANGED <<handler, env, clock, issued, minted, accepted, cookie, req, resp, call>>

\* what connecting gives: no provider of that type in the page; an
\* account; a throw, which 'No account found' is too; and for Ribbit a
\* response with an address that is not connected
ConnectOutcomes == {"none", "account", "throws", "unconnected"}

\* connectWallet up to its authentication flow: without provider it
\* returns false; with an account it clears isSigningWallet and dispatches
\* 'presigned-state'; a throw goes to the catch, which dispatches
\* 'wallet-error' and returns false; Ribbit's unconnected response skips
\* the flow and the function returns true
ProviderConnect(outcome) ==
    /\ client.pc = "connect"
    /\ resp = NoResp
    /\ outcome = "unconnected" => client.wallet = "ribbit"
    /\ client' =
          IF outcome = "account"
          THEN [client EXCEPT
                   !.pc = After(client.flow, client.wallet, "connect", TRUE),
                   !.signing = FALSE,
                   !.trace = @ \o <<"connect", "presigned-state">>]
          ELSE IF outcome = "throws"
          THEN [client EXCEPT
                   !.pc = "done",
                   !.trace = @ \o <<"connect", "wallet-error">>,
                   !.result = "false"]
          ELSE [client EXCEPT
                   !.pc = "done",
                   !.trace = IF outcome = "none" THEN @ ELSE Append(@, "connect"),
                   !.result = IF outcome = "none" THEN "false" ELSE "true"]
    /\ UNCHANGED <<handler, env, clock, issued, minted, accepted, cookie, req, resp, call>>

\* what the provider does with a signing request
WalletOutcomes == {"approved", "declined", "threw"}

\* isSigningWallet after provider.signMessage: cleared when a result is
\* returned and when Ribbit's response is not approved; a throw of the
\* provider, and StarKey's refusal is one, passes the line that clears it
FlagAfterSign(wallet, outcome) ==
    IF outcome = "approved" THEN FALSE
    ELSE IF outcome = "declined" /\ wallet = "ribbit" THEN FALSE
    ELSE TRUE

\* the events connectWallet dispatches when signMessage has returned
AfterSigned(flow) == IF flow = "connectWallet" THEN <<"postsigned-state">> ELSE <<>>

\* signMessage(message, nonce, account) is called: nothing is returned
\* while isSigningWallet is 'true'; otherwise the flag is set and the
\* provider of the signer is asked
SignRequest ==
    /\ client.pc = "sign"
    /\ resp = NoResp
    /\ client' =
          IF client.signing
          THEN [client EXCEPT
                   !.message = FlowMessage(client.flow),
                   !.trace = @ \o <<"sign", "skipped">> \o AfterSigned(client.flow),
                   !.pc = IF client.flow = "walletUpdated" THEN "done"
                          ELSE After(client.flow, client.wallet, "sign", TRUE),
                   !.result = IF client.flow = "walletUpdated" THEN "undefined" ELSE @]
          ELSE [client EXCEPT
                   !.message = FlowMessage(client.flow),
                   !.signing = TRUE,
                   !.trace = Append(@, "sign"),
                   !.pc = "signing"]
    /\ UNCHANGED <<handler, env, clock, issued, minted, accepted, cookie, req, resp, call>>

\* provider.signMessage settles. The provider answers with a signature by
\* the key of the account; the hook computes verified and returns
\* the answer whatever it is, so the message the signature covers is the
\* provider's choice. Or the call throws, which ends the flow
SignResponse(outcome, covers) ==
    /\ client.pc = "signing"
    /\ resp = NoResp
    /\ client' =
          IF outcome = "approved"
          THEN [client EXCEPT
                   !.signature = Signed(covers,
                       OwnerKey(JStr(Account(client.flow)))),
                   !.signing = FlagAfterSign(client.signer, outcome),
                   !.trace = @ \o AfterSigned(client.flow),
                   !.pc = After(client.flow, client.wallet, "sign", TRUE)]
          ELSE [client EXCEPT
                   !.signing = FlagAfterSign(client.signer, outcome),
                   !.trace = IF client.flow = "connectWallet"
                             THEN @ \o <<outcome, "wallet-error">>
                             ELSE Append(@, outcome),
                   !.pc = "done",
                   !.result = Caught(client.flow)]
    /\ UNCHANGED <<handler, env, clock, issued, minted, accepted, cookie, req, resp, call>>

\* a signMessage call of another hook instance on the same localStorage
\* finds the flag clear, sets it and asks its wallet
OtherSignRequest ==
    /\ client.other = "idle"
    /\ ~client.signing
    /\ client' = [client EXCEPT !.other = "outstanding", !.signing = TRUE]
    /\ UNCHANGED <<handler, env, clock, issued, minted, accepted, cookie, req, resp, call>>

\* and its request settles
OtherSignResponse(wallet, outcome) ==
    /\ client.other = "outstanding"
    /\ client' = [client EXCEPT !.other = "idle",
                                !.signing = FlagAfterSign(wallet, outcome)]
    /\ UNCHANGED <<handler, env, clock, issued, minted, accepted, cookie, req, resp, call>>

\* await provider.disconnect(): resolves or throws; resetWalletData follows
\* on both paths and clears the flag for StarKey
ProviderDisconnect(ok) ==
    /\ client.pc = "disconnect"
    /\ resp = NoResp
    /\ LET next == After(client.flow, client.wallet, "disconnect", ok)
       IN  client' = [client EXCEPT
               !.pc = next,
               !.signing = IF client.wallet = "starkey" THEN FALSE ELSE @,
               !.trace = Append(@, "disconnect"),
               !.result = IF next = "done" THEN "undefined" ELSE @]
    /\ UNCHANGED <<handler, env, clock, issued, minted, accepted, cookie, req, resp, call>>

\* authFetch's own request, to a route of the application
Request ==
    /\ client.pc = "request"
    /\ resp = NoResp
    /\ client' = [client EXCEPT
           !.pc = "done",
           !.trace = Append(@, "request"),
           !.result = Returns(client.flow, client.wallet, "request", TRUE)]
    /\ UNCHANGED <<handler, env, clock, issued, minted, accepted, cookie, req, resp, call>>

\* the fetch the flow awaits reaches its route
Fetch ==
    /\ resp = NoResp
    /\ \/ /\ client.pc = "nonce"
          /\ \E r \in ProtocolDraws : NonceGET(r)
       \/ /\ client.pc = "create-jwt"
          /\ CreateJwtPOST("object", JStr(Account(client.flow)),
                           Posted(client.flow, client.signature), client.nonce)
       \/ /\ client.pc = "login"
          /\ WalletLoginPOST(client.token)
       \/ /\ client.pc = "logout"
          /\ WalletLogoutPOST
       \/ /\ client.pc = "check"
          /\ CheckGET(cookie)

\* what the flow has written to localStorage's authToken, and assigned to
\* document.cookie, when its fetch at pc resolved with this token: signIn
\* writes the token of /create-jwt to both, whatever it is
Stored(flow, pc, token, old) ==
    IF flow = "signIn" /\ pc = "create-jwt" THEN String(token) ELSE old

\* the fetch resolves: the browser takes the Set-Cookie as in Receive and
\* the flow goes on to its next await; no flow looks at the status of
\* /create-jwt or /wallet-login. The flows that reach their last line
\* dispatch 'wallet-connected'. checkAndRevalidateToken sets
\* justRequestedRelative after the nonce and clears it after /create-jwt.
\* signIn's document.cookie assignment carries HttpOnly, which a browser
\* refuses from a script, so the cookie store stays as it is
Resume ==
    /\ resp # NoResp
    /\ client.pc \notin {"idle", "done"}
    /\ cookie' = IF ~resp.setCookie.set THEN cookie
                 ELSE IF resp.setCookie.maxAge = 0 THEN JUndef
                 ELSE resp.setCookie.value
    /\ LET ok == resp.status = 200
           next == After(client.flow, client.wallet, client.pc, ok)
           last == /\ client.pc \in {"create-jwt", "login"}
                   /\ next \in {"done", "request"}
       IN  client' = [client EXCEPT
               !.pc = next,
               !.nonce = IF client.pc = "nonce" THEN text(resp) ELSE @,
               !.got = IF client.pc = "nonce" THEN resp.body ELSE @,
               !.token = IF client.pc = "create-jwt" THEN json(resp) ELSE @,
               !.status = IF client.pc = "create-jwt" THEN resp.status ELSE @,
               !.login = IF client.pc = "login" THEN resp.status ELSE @,
               !.justRequestedRelative =
                   IF client.flow \in Revalidating /\ client.pc = "nonce" THEN TRUE
                   ELSE IF client.flow \in Revalidating /\ client.pc = "create-jwt" THEN FALSE
                   ELSE @,
               !.localStorage = Stored(client.flow, client.pc, json(resp), @),
               !.documentCookie = Stored(client.flow, client.pc, json(resp), @),
               !.trace = IF last THEN @ \o <<client.pc, "wallet-connected">>
                         ELSE Append(@, client.pc),
               !.result = IF next = "done"
                          THEN Returns(client.flow, client.wallet, client.pc, ok)
                          ELSE @]
    /\ req' = NoReq
    /\ resp' = NoResp
    /\ UNCHANGED <<handler, env, clock, issued, minted, accepted, call>>

InitClient == InitAt({Epoch})

\* one flow at a time, the wallets signing the message they are given;
\* between two flows the page may ask /check. Within
\* these instants no token expires, so the time that passes tells only
\* between the issue of a nonce and its use: it passes while the wallet
\* waits for the user
NextClient ==
    \/ /\ client.pc = "signing"
       /\ \E t \in ProtocolInstants : Tick(t)
    \/ \E w \in Wallets : \E f \in FlowsOf(w) : Begin(f, w)
    \/ \E outcome \in ConnectOutcomes : ProviderConnect(outcome)
    \/ SignRequest
    \/ \E outcome \in WalletOutcomes : SignResponse(outcome, FlowMessage(client.flow))
    \/ \E ok \in BOOLEAN : ProviderDisconnect(ok)
    \/ Request
    \/ Fetch
    \/ Resume
    \/ /\ resp = NoResp
       /\ client.pc \in {"idle", "done"}
       /\ CheckGET(cookie)
    \/ /\ client.pc \in {"idle", "done"}
       /\ Receive

SpecClient == InitClient /\ [][NextClient]_vars

\* connectWallet and signIn with a provider that chooses what it signs
NextStorage ==
    \/ /\ client.pc = "signing"
       /\ \E t \in ProtocolInstants : Tick(t)
    \/ \E w \in Wallets : \E f \in {"connectWallet", "signIn"} : Begin(f, w)
    \/ \E outcome \in ConnectOutcomes : ProviderConnect(outcome)
    \/ SignRequest
    \/ \E outcome \in WalletOutcomes :
           \E covers \in {FlowMessage(client.flow), AUTH_MESSAGE} :
               SignResponse(outcome, covers)
    \/ Fetch
    \/ Resume

SpecStorage == InitClient /\ [][NextStorage]_vars

\* connectWallet and signIn next to the signMessage calls of a second hook
\* instance in the same browser
NextSigning ==
    \/ \E w \in Wallets : \E f \in {"connectWallet", "signIn"} : Begin(f, w)
    \/ \E outcome \in ConnectOutcomes : ProviderConnect(outcome)
    \/ SignRequest
    \/ \E outcome \in WalletOutcomes : SignResponse(outcome, FlowMessage(client.flow))
    \/ OtherSignRequest
    \/ \E w \in Wallets, outcome \in WalletOutcomes : OtherSignResponse(w, outcome)
    \/ Fetch
    \/ Resume

SpecSigning == InitClient /\ [][NextSigning]_vars

----------------------------------------------------------------------------
(* The component ConnectWalletHandler over the hook's connectWallet *)

\* the listeners have handled every event the flow dispatched:
\* dispatchEvent runs them before the flow goes on
Delivered == handler.seen = Len(client.trace)

\* setTimeout(..., 2500) of the listener of this event, or the 100 ms one
\* of handleModalClose ("close"), set during this attempt
Timer(kind) == [kind |-> kind, attempt |-> handler.attempt]

\* handleConnectClick, behind the children's connect button, which is
\* disabled while the component or the hook is loading
handleConnectClick ==
    /\ ~handler.loading
    /\ ~handler.calling
    /\ ~handler.showWalletModal
    /\ handler' = [handler EXCEPT !.showWalletModal = TRUE]
    /\ UNCHANGED <<env, client, clock, issued, minted, accepted, cookie, req, resp, call>>

\* the component's connectWallet(walletType), behind the wallet buttons the
\* modal shows in stage 'idle', disabled while loading: up to the first
\* await of the hook's connectWallet
HandlerConnectWallet(walletType) ==
    /\ handler.showWalletModal
    /\ handler.connectionStage = "idle"
    /\ ~handler.loading
    /\ ~handler.calling
    /\ handler.attempt < MaxAttempts
    /\ resp = NoResp
    /\ handler' = [handler EXCEPT
           !.loading = TRUE,
           !.selectedWallet = walletType,
           !.connectionStage = "connecting",
           !.attempt = @ + 1,
           !.calling = TRUE,
           !.seen = 0]
    /\ client' = Started("connectWallet", walletType)
    /\ UNCHANGED <<env, clock, issued, minted, accepted, cookie, req, resp, call>>

\* the listeners of 'presigned-state', 'postsigned-state' and
\* 'wallet-error' on the next entry of the trace; the other entries are no
\* events
Listen ==
    /\ ~Delivered
    /\ LET e == client.trace[handler.seen + 1]
       IN  handler' =
              IF e = "presigned-state"
              THEN [handler EXCEPT !.seen = @ + 1, !.connectionStage = "signing"]
              ELSE IF e = "postsigned-state"
              THEN [handler EXCEPT !.seen = @ + 1,
                                   !.connectionStage = "success",
                                   !.timers = @ \cup {Timer(e)}]
              ELSE IF e = "wallet-error"
              THEN [handler EXCEPT !.seen = @ + 1,
                                   !.connectionStage =
                                       IF @ = "signing" THEN "connected-not-signed"
                                       ELSE "error",
                                   !.timers = @ \cup {Timer(e)}]
              ELSE [handler EXCEPT !.seen = @ + 1]
    /\ UNCHANGED <<env, client, clock, issued, minted, accepted, cookie, req, resp, call>>

\* the hook's connectWallet has returned: success is noted, and the finally
\* block clears loading; the stage is not touched
HandlerReturned ==
    /\ handler.calling
    /\ client.pc = "done"
    /\ Delivered
    /\ handler' = [handler EXCEPT !.calling = FALSE, !.loading = FALSE]
    /\ UNCHANGED <<env, client, clock, issued, minted, accepted, cookie, req, resp, call>>

\* a timer runs its callback: the three callbacks name no attempt
TimerFires(t) ==
    /\ t \in handler.timers
    /\ handler' =
          IF t.kind = "postsigned-state"
          THEN [handler EXCEPT !.timers = @ \ {t},
                               !.connectionStage = "idle",
                               !.showWalletModal = FALSE]
          ELSE IF t.kind = "wallet-error"
          THEN [handler EXCEPT !.timers = @ \ {t},
                               !.showWalletModal = FALSE,
                               !.selectedWallet = "none",
                               !.connectionStage = "idle",
                               !.loading = FALSE]
          ELSE [handler EXCEPT !.timers = @ \ {t},
                               !.connectionStage = "idle"]
    /\ UNCHANGED <<env, client, clock, issued, minted, accepted, cookie, req, resp, call>>

\* handleModalClose(false): the user closes the modal, which the stages
\* 'connecting' and 'signing' allow after two seconds (canClickOutside)
handleModalClose ==
    /\ handler.showWalletModal
    /\ handler' = [handler EXCEPT
           !.showWalletModal = FALSE,
           !.selectedWallet = "none",
           !.loading = FALSE,
           !.timers = @ \cup {Timer("close")}]
    /\ UNCHANGED <<env, client, clock, issued, minted, accepted, cookie, req, resp, call>>

InitHandler == InitAt({Epoch})

NextHandler ==
    \/ handleConnectClick
    \/ \E w \in Wallets : HandlerConnectWallet(w)
    \/ Listen
    \/ HandlerReturned
    \/ \E t \in handler.timers : TimerFires(t)
    \/ handleModalClose
    \/ /\ Delivered
       /\ \E outcome \in ConnectOutcomes : ProviderConnect(outcome)
    \/ /\ Delivered
       /\ SignRequest
    \/ /\ Delivered
       /\ \E outcome \in WalletOutcomes : SignResponse(outcome, FlowMessage(client.flow))
    \/ /\ Delivered
       /\ Fetch
    \/ /\ Delivered
       /\ Resume

SpecHandler == InitHandler /\ [][NextHandler]_vars

----------------------------------------------------------------------------
(* Properties of the client flows, under SpecClient *)

\* the flow completed this await or dispatched this event
InTrace(x) == \E i \in 1..Len(client.trace) : client.trace[i] = x

\* the flows that authenticate
AuthFlows == {"connectWallet", "signIn", "checkAndRevalidateToken", "authFetch",
              "walletUpdated"}

\* the flow's POST /create-jwt is answered and not yet taken
CreateJwtAnswered ==
    /\ client.flow \in AuthFlows
    /\ client.pc = "create-jwt"
    /\ resp.ep = "create-jwt"

\* C25 - nonce ordering on the client: in every authentication flow the
\* GET /nonce response is received before signMessage is invoked, the nonce
\* posted to /create-jwt is exactly the string that GET returned, and it is
\* the one GET of this attempt, never a nonce of an earlier attempt.
C25_NonceOrdering ==
    client.flow \in AuthFlows =>
        /\ client.pc = "sign" => client.got.t = "str"
        /\ \A i \in 1..Len(client.trace) :
               client.trace[i] = "sign" =>
                   \E j \in 1..(i - 1) : client.trace[j] = "nonce"
        /\ Cardinality({i \in 1..Len(client.trace) : client.trace[i] = "nonce"}) <= 1
        /\ CreateJwtAnswered =>
               /\ req.nonce = client.got
               /\ client.got.t = "str"
               /\ client.got.s \in IssuedStrs

\* the second attempt posts the second nonce, and it is accepted
C25_Witness ==
    /\ CreateJwtAnswered
    /\ resp.status = 200
    /\ Cardinality(issued) = 2
    /\ \E i \in issued : JStr(i.nonce) # req.nonce

\* C26 - a rejected attempt is reported as rejected: when /create-jwt
\* answers a connectWallet attempt with a non-200 status, or the wallet
\* returns no signature, connectWallet does not return true and dispatches
\* no 'wallet-connected' event.
C26_RejectedReported ==
    ( /\ client.flow = "connectWallet"
      /\ client.pc = "done"
      /\ \/ client.status \notin {0, 200}
         \/ InTrace("sign") /\ client.signature = NoEnvelope )
    => /\ client.result # "true"
       /\ ~InTrace("wallet-connected")

\* the user has a session: the cookie held when the flow began passes
\* verifyToken now
SessionHeld ==
    /\ Truthy(client.session)
    /\ ~verifyToken(client.session, clock).null

\* C29 - disconnect ends the session for every wallet type: after
\* disconnectWallet completes for an authenticated user of either wallet,
\* also when provider.disconnect throws, POST /wallet-logout has been
\* called and a following GET /check answers 401.
C29_DisconnectEndsSession ==
    ( /\ client.flow = "disconnectWallet"
      /\ client.pc = "done"
      /\ SessionHeld )
    => /\ InTrace("logout")
       /\ resp.ep = "check" => resp.status = 401

\* the nonce of the request was issued and is inside its window
FreshNonce ==
    \E i \in issued :
        /\ req.nonce = JStr(i.nonce)
        /\ resp.at - i.at <= NONCE_EXPIRY_MS
        /\ resp.at - i.at >= -CLOCK_SKEW_MS

\* C30 - the signed message matches the server's: in every authentication
\* flow the message given to the wallet is the AUTH_MESSAGE /create-jwt
\* verifies and the value posted as signature has the {signature,
\* publicKey} shape, so that an approved signature of an honest wallet with
\* a fresh nonce is accepted.
C30_SignedMessageMatches ==
    ( /\ CreateJwtAnswered
      /\ \E k \in Keys : client.signature = Signed(client.message, k) )
    => /\ client.message = AUTH_MESSAGE
       /\ req.signature.t = "obj"
       /\ FreshNonce => resp.status = 200

\* C31 - the token stays out of script-readable storage: over every client
\* flow a token issued by /create-jwt is never written to localStorage nor
\* assigned to document.cookie; it reaches the cookie store only through the
\* Set-Cookie of /wallet-login.
C31_TokenOutOfScript ==
    \A m \in minted :
        /\ client.localStorage # JStr(m.token)
        /\ client.documentCookie # JStr(m.token)

\* checkAndRevalidateToken, run by itself or by authFetch for a wallet with
\* the capability, found the session good or made a new one
SessionGood ==
    \/ client.trace = <<"check">>
    \/ client.status = 200 /\ client.login = 200

\* C32 - for a wallet with the tokenRevalidation capability,
\* checkAndRevalidateToken returns true only if GET /check succeeded or the
\* revalidation obtained a token from /create-jwt that /wallet-login
\* accepted; authFetch sends its request only in those cases and otherwise
\* throws.
C32_RevalidationTruthful ==
    ( /\ client.wallet = "starkey"
      /\ client.pc = "done" )
    => /\ client.flow = "checkAndRevalidateToken" /\ client.result = "true"
              => SessionGood
       /\ client.flow = "authFetch" /\ InTrace("request") => SessionGood
       /\ client.flow = "authFetch" /\ ~InTrace("request") => client.result = "threw"

\* C33 - the signing flag is released on every exit: isSigningWallet is
\* 'true' only while a provider.signMessage request is outstanding;
\* whenever signMessage has
\* finished, with a result, a refusal or a throw, the flag is 'false', and
\* no later signMessage call is skipped.
C33_FlagReleased ==
    /\ client.signing => client.pc = "signing"
    /\ ~InTrace("skipped")

\* C35 - a failed revalidation does not block later ones:
\* justRequestedRelative is true only while a revalidation is between its
\* nonce and the answer of /create-jwt, and a checkAndRevalidateToken call
\* that finds the session refused starts a revalidation rather than return
\* false.
C35_RevalidationNotBlocked ==
    /\ client.justRequestedRelative =>
           client.flow \in Revalidating /\ client.pc \in {"sign", "create-jwt"}
    /\ ~( /\ client.flow = "checkAndRevalidateToken"
          /\ client.wallet = "starkey"
          /\ client.pc = "done"
          /\ client.trace = <<"check">>
          /\ client.result = "false" )

\* the cookie c authenticates the account at address a
Authenticates(c, a) ==
    /\ Truthy(c)
    /\ ~verifyToken(c, clock).null
    /\ PayloadAddress(verifyToken(c, clock)) = JStr(a)

\* C36 - account switch never keeps the old session: when
\* starkey-wallet-updated arrives while a session for account A is valid and
\* the wallet reports account B, the handler posts /wallet-logout before it
\* requests a nonce or a signature, and when it has finished the cookie
\* does not authenticate A, whether or not authenticating B succeeded.
C36_SwitchDropsSession ==
    ( /\ client.flow = "walletUpdated"
      /\ Authenticates(client.session, AddrA)
      /\ Account(client.flow) # AddrA )
    => /\ \A i \in 1..Len(client.trace) :
              client.trace[i] \in {"nonce", "sign"} =>
                  \E j \in 1..(i - 1) : client.trace[j] = "logout"
       /\ client.pc = "done" =>
              /\ InTrace("logout")
              /\ ~Authenticates(cookie, AddrA)

\* the handler ran to its end on a session of A: logged out, signed, posted
C36_Witness ==
    /\ client.flow = "walletUpdated"
    /\ client.pc = "done"
    /\ Authenticates(client.session, AddrA)
    /\ InTrace("logout")
    /\ InTrace("create-jwt")
    /\ InTrace("login")

\* C34 - at most one signing request at a time: among the hook instances
\* and flows that share isSigningWallet and call signMessage with
\* forceSign false, at no moment are two provider.signMessage requests
\* outstanding; a call made while another is pending returns without
\* asking the wallet. Checked under SpecSigning.
C34_OneSigningRequest ==
    ~(client.pc = "signing" /\ client.other = "outstanding")

\* C37 - connectWallet(walletType) talks to one wallet: the connection
\* request and the signing request both go to the provider of walletType,
\* also when another wallet was selected when the call started.
C37_OneWallet ==
    ( /\ client.flow = "connectWallet"
      /\ InTrace("connect")
      /\ InTrace("sign") /\ ~InTrace("skipped") )
    => client.signer = client.wallet

----------------------------------------------------------------------------
(* Properties of ConnectWalletHandler, under SpecHandler *)

\* C38 - delayed resets belong to their own attempt: the reset scheduled
\* 2.5 s after a 'postsigned-state' or 'wallet-error' event resets only the
\* attempt that scheduled it; when a new attempt has started in the
\* meantime, its connectionStage, selectedWallet, loading flag and modal are
\* left as they are by the older timer.
C38_Step ==
    \A t \in handler.timers \ handler'.timers :
        ( /\ t.kind \in {"postsigned-state", "wallet-error"}
          /\ t.attempt # handler.attempt )
        => /\ handler'.connectionStage = handler.connectionStage
           /\ handler'.selectedWallet = handler.selectedWallet
           /\ handler'.loading = handler.loading
           /\ handler'.showWalletModal = handler.showWalletModal

C38_ResetsOwnAttempt == [][C38_Step]_vars

====
